---------------------------- MODULE Spec2Model ----------------------------
(***************************************************************************)
(* A model of the request router and middleware composition engine of      *)
(* thanhhoajs/thanhhoa.                                                    *)
(*                                                                         *)
(*   Spec        the middleware chain built by compose()                   *)
(*               (src/src/core/router.core.ts 210-219), run step by step   *)
(*               for requests that are in flight at the same time.         *)
(*   SpecRouter  the radix3-based Router (router.core.ts 19-203):          *)
(*               use, addRoute and handle.                                 *)
(*   SpecRegex   the regular-expression Router (src/unnamed/part_011):     *)
(*               use, addRoute and handle.                                 *)
(*   SpecGroup   the same Router with group().                             *)
(*   SpecMount   two Routers of router.core.ts and mount(), whose code is  *)
(*               not part of the sources: mount is modelled from the       *)
(*               specification.                                            *)
(*   SpecApp     ThanhHoa.handleRequest (src/src/core/thanh-hoa.core.ts):  *)
(*               static files, the Router and the SPA fallback in          *)
(*               production and in development mode, and listen().         *)
(*   SpecTimeout the timeout middleware (src/unnamed/part_010).            *)
(*   SpecRateLimit  rateLimit and MemoryStore                              *)
(*               (src/src/middleware/rate-limit.ts).                       *)
(*   SpecThrow   the chain of compose() with errors raised in it.          *)
(*   SpecAgain   the chain of compose() with a middleware that calls       *)
(*               next() twice.                                             *)
(*   SpecCompile the Middleware Compiler as the sources have it: compose() *)
(*               called by handle for each request.                        *)
(*   SpecPool    AsyncPool.execute and cleanup                             *)
(*               (src/src/utils/test-client.ts 303-359).                   *)
(*   SpecNested  the nested request-pool tasks of ThanhHoa.handleRequest   *)
(*               (thanh-hoa.core.ts 84-195), with fairness.                *)
(*   SpecRedis   RedisStore.increment and set (rate-limit.ts 99-131).      *)
(*                                                                         *)
(* Strings are sequences of one-character strings, so that slicing,        *)
(* splitting and pattern matching are computed the way the code computes   *)
(* them.  A method is a single token such as "GET:" or "POST:" (the method *)
(* followed by the colon of the lookup key).                               *)
(***************************************************************************)
EXTENDS Integers, Sequences, FiniteSets, TLC

VARIABLES
    mws,                \* Spec: the middleware list handed to compose()
    rq,                 \* Spec: the requests in flight, one record each
    prefix,             \* SpecRouter: Router.prefix
    radixRouter,        \* SpecRouter: the radix3 router (nodes, staticRoutesMap)
    globalMiddlewares,  \* SpecRouter: Router.globalMiddlewares
    routers,            \* SpecRegex: the Router and the sub-routers of the
                        \* group() calls whose callback is running
    registered,         \* history: the addRoute calls made so far, in order
    last,               \* the outcome of the last handle() call of the present tables
    app,                \* SpecApp: the ThanhHoa application (serve options, files)
    tm,                 \* SpecTimeout: a request through the timeout middleware
    rl,                 \* SpecRateLimit: the rate limiter's store and clock
    pl                  \* SpecPool, SpecNested: the AsyncPool and its callers

vars == <<mws, rq, prefix, radixRouter, globalMiddlewares, routers, registered, last,
          app, tm, rl, pl>>

radixVars == <<prefix, radixRouter, globalMiddlewares>>
routerVars == <<radixVars, routers, registered, last>>
auxVars == <<app, tm, rl, pl>>

\* The parts of the state that a specification does not use stay empty.
AuxIdle == app = <<>> /\ tm = <<>> /\ rl = <<>> /\ pl = <<>>

(***************************************************************************)
(* Bounds of the model.                                                    *)
(***************************************************************************)
MaxChain == 3       \* the longest middleware list handed to compose()
MaxReq == 2         \* requests in flight at the same time

(***************************************************************************)
(* Middleware and handlers are opaque functions to the router.  The model  *)
(* knows three middlewares by what they do with next():                    *)
(*   "A", "B", "G"  run their code, await next(), run their code after it  *)
(*                  and return the response next() gave them;              *)
(*   "S"            returns its own response without calling next().       *)
(***************************************************************************)
PassThrough == {"A", "B", "G", "C", "D"}
ShortCircuit == {"S"}
Middlewares == PassThrough \cup ShortCircuit

CallsNext(m) == m \in PassThrough
\* "C" wraps its next() in try/catch and answers an error with a response of
\* its own; "X" throws instead of calling next().
Catches(m) == m = "C"
\* "D" calls next() a second time when its first next() has resolved, and
\* returns the second response.
CallsNextTwice(m) == m = "D"
Throws(m) == m = "X"
ErrorOf(name) == <<"error", name>>
ResponseOfMiddleware(m) == <<"response", m>>
ResponseOfHandler(h) == <<"response", h>>
\* The handler whose own response has status 404 (say, "no such user"); the
\* other handlers and the middlewares answer with status 200.
NotFoundHandler == "H2"
StatusOfResponse(resp) == IF resp = ResponseOfHandler(NotFoundHandler) THEN 404 ELSE 200

SeqsUpTo(S, n) == UNION {[1..k -> S] : k \in 0..n}

Chains == SeqsUpTo({"A", "B", "S"}, MaxChain)
Requests == 1..MaxReq
TheHandler == "H"

(***************************************************************************)
(* compose(middlewares)(context, next), router.core.ts 210-219:            *)
(*   dispatch(index): if (index >= middlewares.length) return next();      *)
(*                    return middlewares[index](context,                   *)
(*                                              () => dispatch(index + 1)) *)
(* index is 0-based as in the code; middlewares[index] is mwList[index+1]. *)
(***************************************************************************)
AtEndSkipLast(index, mwList) == index >= Len(mwList) - 1
AtEnd(index, mwList) == index >= Len(mwList)

NextIndexSkip(index) == index + 2
NextIndex(index) == index + 1

MiddlewareAt(index, mwList) == mwList[index + 1]

\* An event of the log: the function that ran, its position in the list
\* (0-based; -1 for the handler) and which part of it ran.
Event(name, pos, kind) == <<name, pos, kind>>

IdleRequest ==
    [pc |-> "idle", index |-> 0, stack |-> <<>>, log |-> <<>>, resp |-> <<>>,
     seen |-> <<>>, failed |-> FALSE, again |-> {}]

\* dispatch(index): index is the argument of this call, held in the closure
\* () => dispatch(index + 1) that was made for this request alone.
DispatchIndexShared(r) ==
    LET inFlight == {q \in DOMAIN rq : rq[q].pc = "dispatch"}
    IN  CHOOSE i \in {rq[q].index : q \in inFlight \cup {r}} :
            \A q \in inFlight \cup {r} : rq[q].index <= i
DispatchIndex(r) == rq[r].index

\* handle() calls compose(middlewares)(context, next): dispatch(0).
Invoke(r) ==
    /\ rq[r].pc = "idle"
    /\ rq' = [rq EXCEPT ![r] = [IdleRequest EXCEPT !.pc = "dispatch",
                                                   !.failed = rq[r].failed]]
    /\ UNCHANGED <<auxVars, mws, routerVars>>

\* dispatch(index) with index >= middlewares.length: return next(), and
\* next is () => route.handler(context).
DispatchHandler(r) ==
    /\ rq[r].pc = "dispatch"
    /\ AtEnd(DispatchIndex(r), mws)
    /\ rq' = [rq EXCEPT ![r].pc = "return",
                        ![r].log = Append(@, Event(TheHandler, -1, "run")),
                        ![r].resp = ResponseOfHandler(TheHandler)]
    /\ UNCHANGED <<auxVars, mws, routerVars>>

\* The same call of next() with a handler that awaits before it produces its
\* response: the handler has started and its promise is pending.
HandlerSuspends(r) ==
    /\ rq[r].pc = "dispatch"
    /\ AtEnd(DispatchIndex(r), mws)
    /\ rq' = [rq EXCEPT ![r].pc = "await",
                        ![r].log = Append(@, Event(TheHandler, -1, "run"))]
    /\ UNCHANGED <<auxVars, mws, routerVars>>

\* The suspended handler produces its response: its promise resolves.
HandlerResolves(r) ==
    /\ rq[r].pc = "await"
    /\ rq' = [rq EXCEPT ![r].pc = "return",
                        ![r].resp = ResponseOfHandler(TheHandler)]
    /\ UNCHANGED <<auxVars, mws, routerVars>>

\* dispatch(index) calls middlewares[index], which runs its code and calls
\* the next() it was given: dispatch(index + 1).
DispatchCallsNext(r) ==
    /\ rq[r].pc = "dispatch"
    /\ ~AtEnd(DispatchIndex(r), mws)
    /\ CallsNext(MiddlewareAt(DispatchIndex(r), mws))
    /\ rq' = [rq EXCEPT
                ![r].log = Append(@, Event(MiddlewareAt(DispatchIndex(r), mws),
                                           DispatchIndex(r), "before")),
                ![r].stack = Append(@, DispatchIndex(r)),
                ![r].index = NextIndex(DispatchIndex(r))]
    /\ UNCHANGED <<auxVars, mws, routerVars>>

\* dispatch(index) calls middlewares[index], which returns a response of
\* its own and never calls next().
DispatchShortCircuit(r) ==
    /\ rq[r].pc = "dispatch"
    /\ ~AtEnd(DispatchIndex(r), mws)
    /\ MiddlewareAt(DispatchIndex(r), mws) \in ShortCircuit
    /\ rq' = [rq EXCEPT
                ![r].log = Append(@, Event(MiddlewareAt(DispatchIndex(r), mws),
                                           DispatchIndex(r), "before")),
                ![r].pc = "return",
                ![r].resp = ResponseOfMiddleware(MiddlewareAt(DispatchIndex(r), mws))]
    /\ UNCHANGED <<auxVars, mws, routerVars>>

\* The promise that next() returned is the promise of dispatch(index + 1)
\* itself (router.core.ts 216): it is settled when the inner part has
\* returned, never while the inner part is still pending.
ResolvedEarly(r) == rq[r].pc \in {"return", "await"}
Resolved(r) == rq[r].pc = "return"

\* The promise of next() resolves in the innermost middleware that awaits
\* it: its code after next() runs and it returns the response it received.
\* seen records the response each middleware received from its next().
ResumeAfterNext(r) ==
    /\ Resolved(r)
    /\ rq[r].stack # <<>>
    /\ LET top == rq[r].stack[Len(rq[r].stack)]
       IN  /\ CallsNextTwice(MiddlewareAt(top, mws)) => top \in rq[r].again
           /\ rq' = [rq EXCEPT
                    ![r].log = Append(@, Event(MiddlewareAt(top, mws), top, "after")),
                    ![r].seen = Append(@, rq[r].resp),
                    ![r].again = @ \ {top},
                    ![r].stack = SubSeq(@, 1, Len(@) - 1)]
    /\ UNCHANGED <<auxVars, mws, routerVars>>

\* dispatch(0) has returned: the promise of handle() resolves.
Complete(r) ==
    /\ rq[r].pc = "return"
    /\ rq[r].stack = <<>>
    /\ rq' = [rq EXCEPT ![r].pc = "done"]
    /\ UNCHANGED <<auxVars, mws, routerVars>>

\* The response was delivered; the next request of this connection arrives.
Deliver(r) ==
    /\ rq[r].pc = "done"
    /\ rq' = [rq EXCEPT ![r] = IdleRequest]
    /\ UNCHANGED <<auxVars, mws, routerVars>>

----------------------------------------------------------------------------
(***************************************************************************)
(* Strings.                                                                *)
(***************************************************************************)
\* path.endsWith('/')
\* s.startsWith(p)
StartsWith(s, p) == Len(p) <= Len(s) /\ SubSeq(s, 1, Len(p)) = p

EndsWithSlash(s) == s # <<>> /\ s[Len(s)] = "/"

\* path.slice(0, -1)
DropLast(s) == SubSeq(s, 1, Len(s) - 1)

\* path.replace(/^\/+/, '')
RECURSIVE StripLeadingSlashes(_)
StripLeadingSlashes(s) ==
    IF s # <<>> /\ s[1] = "/" THEN StripLeadingSlashes(Tail(s)) ELSE s

\* str.split('/')
RECURSIVE SplitFrom(_, _, _, _)
SplitFrom(s, i, cur, acc) ==
    IF i > Len(s) THEN Append(acc, cur)
    ELSE IF s[i] = "/" THEN SplitFrom(s, i + 1, <<>>, Append(acc, cur))
    ELSE SplitFrom(s, i + 1, Append(cur, s[i]), acc)

Split(s) == SplitFrom(s, 1, <<>>, <<>>)

\* new URL(request.url).pathname, for a URL "http://localhost" + path whose
\* path is empty or begins with "/" and holds letters, ":" and "/" only.
UrlPathname(path) == IF path = <<>> THEN <<"/">> ELSE path

(***************************************************************************)
(* Router.normalizePath, router.core.ts 36-39.                             *)
(***************************************************************************)
normalizePathAlwaysSlice(path) ==
    IF path = <<>> THEN path ELSE DropLast(path)
normalizePath(path) ==
    IF path = <<"/">> THEN path
    ELSE IF EndsWithSlash(path) THEN DropLast(path) ELSE path

(***************************************************************************)
(* The radix3 router behind createRouter() (router.core.ts 20, 123, 194;   *)
(* radix3 ^1.1.2, package.json 59).  A node is named by the sections that  *)
(* lead to it from the root; nodes maps each node to its data, parameter   *)
(* name, placeholder children (in push order) and maxDepth.  The paths of  *)
(* the model hold no "*", so no wildcard node is ever created.             *)
(***************************************************************************)
NoData == [handler |-> "none"]

NewRadixNode == [data |-> NoData, paramName |-> <<>>,
                 placeholderChildren |-> <<>>, maxDepth |-> 0]

RootNode == <<>>
EmptyRadix == [nodes |-> (RootNode :> NewRadixNode), staticRoutesMap |-> <<>>]

\* createRouter: normalizeTrailingSlash = p.replace(/\/$/, '') || '/'
radixNormalizeTrailingSlash(p) ==
    LET q == IF EndsWithSlash(p) THEN DropLast(p) ELSE p
    IN  IF q = <<>> THEN <<"/">> ELSE q

\* getNodeType: a section that begins with ":" is a placeholder.
IsPlaceholder(section) == section # <<>> /\ section[1] = ":"

Max(a, b) == IF a >= b THEN a ELSE b

\* insert(): the loop over the sections.  matched holds the root and the
\* nodes this insert created.
RECURSIVE RadixInsertWalk(_, _, _, _, _, _)
RadixInsertWalk(nodes, sections, i, node, isStatic, matched) ==
    IF i > Len(sections)
    THEN [nodes |-> nodes, node |-> node, isStatic |-> isStatic, matched |-> matched]
    ELSE
        LET section == sections[i]
            child == Append(node, section)
        IN  IF child \in DOMAIN nodes
            THEN RadixInsertWalk(nodes, sections, i + 1, child, isStatic, matched)
            ELSE
                LET ph == IsPlaceholder(section)
                    created == [NewRadixNode EXCEPT
                                  !.paramName = IF ph THEN Tail(section) ELSE <<>>]
                    withParent ==
                        IF ph
                        THEN [nodes EXCEPT ![node].placeholderChildren = Append(@, child)]
                        ELSE nodes
                IN  RadixInsertWalk(withParent @@ (child :> created), sections, i + 1,
                                    child, isStatic /\ ~ph, Append(matched, child))

\* insert(): maxDepth of the root and of the created nodes.
RECURSIVE RadixSetDepths(_, _, _)
RadixSetDepths(nodes, matched, k) ==
    IF k > Len(matched) THEN nodes
    ELSE RadixSetDepths(
            [nodes EXCEPT ![matched[k]].maxDepth = Max(Len(matched) - (k - 1), @)],
            matched, k + 1)

radixInsert(ctx, rawPath, data) ==
    LET path == radixNormalizeTrailingSlash(rawPath)
        w == RadixInsertWalk(ctx.nodes, Split(path), 1, RootNode, TRUE, <<RootNode>>)
        deep == RadixSetDepths(w.nodes, w.matched, 1)
        stored == [deep EXCEPT ![w.node].data = data]
    IN  [nodes |-> stored,
         staticRoutesMap |->
            IF w.isStatic
            THEN (path :> w.node) @@ ctx.staticRoutesMap
            ELSE ctx.staticRoutesMap]

NoParams == <<>>
NullNode == << <<"null">> >>

\* lookup(): the placeholder child taken when no child has the section's name.
PlaceholderFor(nodes, node, remaining) ==
    LET ph == nodes[node].placeholderChildren
    IN  IF Len(ph) > 1
        THEN IF \E k \in 1..Len(ph) : nodes[ph[k]].maxDepth = remaining
             THEN ph[CHOOSE k \in 1..Len(ph) :
                        /\ nodes[ph[k]].maxDepth = remaining
                        /\ \A j \in 1..(k - 1) : nodes[ph[j]].maxDepth # remaining]
             ELSE NullNode
        ELSE IF Len(ph) = 1 THEN ph[1] ELSE NullNode

\* lookup(): the loop over the sections.
RECURSIVE RadixLookupWalk(_, _, _, _, _, _)
RadixLookupWalk(nodes, sections, i, node, params, paramsFound) ==
    IF i > Len(sections)
    THEN [node |-> node, params |-> params, paramsFound |-> paramsFound]
    ELSE
        LET section == sections[i]
            child == Append(node, section)
        IN  IF child \in DOMAIN nodes
            THEN RadixLookupWalk(nodes, sections, i + 1, child, params, paramsFound)
            ELSE
                LET next == PlaceholderFor(nodes, node, Len(sections) - (i - 1))
                IN  IF next = NullNode
                    THEN [node |-> NullNode, params |-> params,
                          paramsFound |-> paramsFound]
                    ELSE RadixLookupWalk(
                            nodes, sections, i + 1, next,
                            IF nodes[next].paramName # <<>>
                            THEN (nodes[next].paramName :> section) @@ params
                            ELSE params,
                            TRUE)

\* lookup(): null, the node's data, or { ...node.data, params }.
radixLookup(ctx, rawPath) ==
    LET path == radixNormalizeTrailingSlash(rawPath)
    IN  IF path \in DOMAIN ctx.staticRoutesMap
        THEN [found |-> TRUE, data |-> ctx.nodes[ctx.staticRoutesMap[path]].data,
              hasParams |-> FALSE, params |-> NoParams]
        ELSE
            LET w == RadixLookupWalk(ctx.nodes, Split(path), 1, RootNode, NoParams, FALSE)
            IN  IF w.node = NullNode
                THEN [found |-> FALSE, data |-> NoData,
                      hasParams |-> FALSE, params |-> NoParams]
                ELSE IF w.paramsFound
                THEN [found |-> TRUE, data |-> ctx.nodes[w.node].data,
                      hasParams |-> TRUE, params |-> w.params]
                ELSE [found |-> ctx.nodes[w.node].data # NoData,
                      data |-> ctx.nodes[w.node].data,
                      hasParams |-> FALSE, params |-> NoParams]

----------------------------------------------------------------------------
(***************************************************************************)
(* compose(), as the value it computes: the events of one request in the   *)
(* order they happen and the response that comes back.                     *)
(***************************************************************************)
RECURSIVE dispatch(_, _, _)
dispatch(mwList, handler, index) ==
    IF AtEnd(index, mwList)
    THEN [log |-> <<Event(handler, -1, "run")>>, resp |-> ResponseOfHandler(handler)]
    ELSE
        LET middleware == MiddlewareAt(index, mwList)
        IN  IF CallsNext(middleware)
            THEN LET inner == dispatch(mwList, handler, NextIndex(index))
                 IN  [log |-> <<Event(middleware, index, "before")>> \o inner.log
                                \o <<Event(middleware, index, "after")>>,
                      resp |-> inner.resp]
            ELSE [log |-> <<Event(middleware, index, "before")>>,
                  resp |-> ResponseOfMiddleware(middleware)]

compose(mwList, handler) == dispatch(mwList, handler, 0)

(***************************************************************************)
(* Inputs of the router.                                                   *)
(***************************************************************************)
MaxRoutes == 2      \* addRoute calls
MaxUse == 1         \* use calls

P_root == <<"/">>
P_u == <<"/", "u">>
P_uSlash == <<"/", "u", "/">>
P_un == <<"/", "u", "/", "n">>
P_ui == <<"/", "u", "/", ":", "i">>
P_uicj == <<"/", "u", "/", ":", "i", "/", "c", "/", ":", "j">>
P_ua == <<"/", "u", "/", "a">>
P_uac == <<"/", "u", "/", "a", "/", "c">>
P_uacb == <<"/", "u", "/", "a", "/", "c", "/", "b">>
P_x == <<"/", "x">>
P_uEmpty == <<"/", "u", "/", "/", "c", "/", "b">>
P_a == <<"/", "a">>

\* The arguments of the route registrations: method, path, middlewares.
RouteInputs ==
    ({"GET:"} \X {P_root, P_u, P_uSlash, P_un, P_ui, P_uicj} \X {<<>>})
    \cup {<<"GET:", P_u, <<"A">>>>, <<"POST:", P_u, <<>>>>}

\* The requests made of a router with prefix pfx: method and path of the URL.
RequestInputs(pfx) ==
    ({"GET:"} \X ({pfx \o p : p \in {P_root, P_u, P_uSlash, P_un, P_ua, P_uac, P_uacb}}
                  \cup {P_x}))
    \cup {<<"POST:", pfx \o P_u>>, <<"GET:", pfx \o P_uEmpty>>}

Prefixes == {<<>>, P_a}

HandlerNames == <<"H1", "H2", "H3", "H4">>

NoOutcome == [kind |-> "none"]

(***************************************************************************)
(* The Router of router.core.ts 19-203.                                    *)
(***************************************************************************)
\* addRoute: path ? `/${path.replace(/^\/+/, '')}` : '/'
LeadingSlash(path) ==
    IF path # <<>> THEN <<"/">> \o StripLeadingSlashes(path) ELSE <<"/">>

\* addRoute: `${method}:${normalizePath(prefix)}${normalizePath(normalizedPath)}`
FullPath(method, pfx, path) ==
    <<method>> \o normalizePath(pfx) \o normalizePath(LeadingSlash(path))

\* use, addRoute, group and mount are accepted at any time, also between two
\* requests.  last is the outcome of the last handle() call made of the
\* present tables: a registration changes the tables, and the outcome of an
\* earlier request is no longer kept.
Served == last # NoOutcome

\* use(middleware)
Use(m) ==
    /\ Len(globalMiddlewares) < MaxUse
    /\ globalMiddlewares' = Append(globalMiddlewares, m)
    /\ last' = NoOutcome
    /\ UNCHANGED <<auxVars, mws, rq, prefix, radixRouter, routers, registered>>

\* get/post/... -> addRoute(method, path, handler, middlewares)
AddRoute(method, path, middlewares) ==
    /\ Len(registered) < MaxRoutes
    /\ LET handler == HandlerNames[Len(registered) + 1]
       IN  /\ radixRouter' = radixInsert(radixRouter, FullPath(method, prefix, path),
                                         [handler |-> handler, middlewares |-> middlewares])
           /\ registered' = Append(registered,
                                   [method |-> method, path |-> path,
                                    handler |-> handler, middlewares |-> middlewares,
                                    globalsBefore |-> Len(globalMiddlewares)])
    /\ last' = NoOutcome
    /\ UNCHANGED <<auxVars, mws, rq, prefix, globalMiddlewares, routers>>

NotFound == <<"response", "Not Found">>

\* handle(context): what the returned promise settles to.
handle(router, globals, method, path) ==
    LET normalizedPath == normalizePath(UrlPathname(path))
        route == radixLookup(router, <<method>> \o normalizedPath)
    IN  IF route.found
        THEN IF route.data = NoData
             THEN \* [...this.globalMiddlewares, ...route.middlewares] with
                  \* route.middlewares undefined
                  [kind |-> "throw", error |-> "TypeError", log |-> <<>>]
             ELSE LET chain == globals \o route.data.middlewares
                      run == compose(chain, route.data.handler)
                  IN  [kind |-> "response", matched |-> TRUE,
                       status |-> StatusOfResponse(run.resp),
                       handler |-> route.data.handler, params |-> route.params,
                       chain |-> chain, log |-> run.log, resp |-> run.resp]
        ELSE [kind |-> "response", matched |-> FALSE, status |-> 404,
              log |-> <<>>, resp |-> NotFound]

\* handle() reads this.radixRouter and this.globalMiddlewares and writes
\* neither: lookup() returns the stored data and the chain is a fresh array.
HandleCaching(method, path) ==
    LET out == handle(radixRouter, globalMiddlewares, method, path)
    IN  /\ last' = [method |-> method, path |-> path, out |-> out]
        /\ radixRouter' =
               IF out.kind = "response" /\ out.matched
               THEN radixInsert(radixRouter,
                                <<method>> \o normalizePath(UrlPathname(path)),
                                [handler |-> out.handler, middlewares |-> out.chain])
               ELSE radixRouter
        /\ UNCHANGED <<auxVars, mws, rq, prefix, globalMiddlewares, routers, registered>>
Handle(method, path) ==
    /\ last' = [method |-> method, path |-> path,
                out |-> handle(radixRouter, globalMiddlewares, method, path)]
    /\ UNCHANGED <<auxVars, mws, rq, radixVars, routers, registered>>

InitRouter ==
    /\ mws = <<>>
    /\ rq = <<>>
    /\ prefix \in Prefixes
    /\ radixRouter = EmptyRadix
    /\ globalMiddlewares = <<>>
    /\ routers = <<>>
    /\ registered = <<>>
    /\ last = NoOutcome
    /\ AuxIdle

NextRouter ==
    \/ Use("G")
    \/ \E inp \in RouteInputs : AddRoute(inp[1], inp[2], inp[3])
    \/ \E req \in RequestInputs(prefix) : Handle(req[1], req[2])

SpecRouter == InitRouter /\ [][NextRouter]_vars


----------------------------------------------------------------------------
(***************************************************************************)
(* ThanhHoa (src/src/core/thanh-hoa.core.ts 329-837), the layer around     *)
(* Router.handle: handleRequest answers OPTIONS and WebSocket paths, then  *)
(* serves static files, then asks the router, then tries the               *)
(* single-page-application fallback.  The application has one static       *)
(* directory mounted at /s; files is the set of files in it.  app holds    *)
(* serveOptions.spa, hasStaticDirs, isProduction, whether the constructor  *)
(* made staticFileCache, the WebSocket paths, the error handler and the    *)
(* request that is in flight.  handleRequest returns to the event loop at  *)
(* its awaits (585, 601/676, 611/686, 620/693, 660) and reads the fields   *)
(* of the application again after each; listen, ws, setErrorHandler and    *)
(* the route registrations may run in between.  One request is followed    *)
(* at a time.  last is the latest request once it has been answered; clean *)
(* says that nothing was registered or configured while it was in flight.  *)
(***************************************************************************)
P_api == <<"/", "a", "p", "i">>
P_static == <<"/", "s">>
P_index == <<"/", "index.html">>
P_staticIndex == P_static \o P_index

NoFile == [kind |-> "none"]
StaticThrows == [kind |-> "throw", error |-> "TypeError"]

\* No request is in flight.
AppIdleRequest ==
    [pc |-> "idle", method |-> "", path |-> <<>>, static |-> NoFile,
     out |-> NoOutcome, index |-> NoFile, start |-> 0, touched |-> FALSE]

\* new ThanhHoa(prefix, options): hasStaticDirs is computed from the options,
\* and staticFileCache is made only when there are static directories.
AppOptions ==
    [spa : BOOLEAN, staticDirectories : BOOLEAN, files : SUBSET {P_index},
     isProduction : BOOLEAN]
NewApp(o) ==
    [spa |-> o.spa, hasStaticDirs |-> o.staticDirectories, files |-> o.files,
     isProduction |-> o.isProduction, staticFileCache |-> o.staticDirectories,
     ws |-> {}, errorHandler |-> "default", req |-> AppIdleRequest]

\* The options of listen(): a key is <<>> when it is not given;
\* staticDirectories is given by whether it has a directory.
ListenInputs ==
    [spa : {<<>>, <<TRUE>>, <<FALSE>>},
     staticDirectories : {<<>>, <<TRUE>>, <<FALSE>>}]

AppRouteInputs == {"GET:"} \X {P_u, P_staticIndex, P_uicj} \X {<<>>}
AppRequestInputs ==
    ({"GET:"} \X {P_u, P_api, P_x, P_staticIndex, P_ua})
    \cup {<<"POST:", P_u>>, <<"OPTIONS:", P_u>>}
\* The paths given to ws().
WsInputs == {P_u}

\* handleStaticFile(pathname), by what it finds when it is called;
\* this.staticFileCache.get() of a cache that was never made throws.
handleStaticFile(options, pathname) ==
    IF ~options.hasStaticDirs THEN NoFile
    ELSE IF ~options.staticFileCache THEN StaticThrows
    ELSE IF /\ StartsWith(pathname, P_static)
            /\ SubSeq(pathname, Len(P_static) + 1, Len(pathname)) \in options.files
    THEN [kind |-> "file", status |-> 200,
          file |-> SubSeq(pathname, Len(P_static) + 1, Len(pathname))]
    ELSE IF pathname = P_index /\ P_index \in options.files
    THEN [kind |-> "file", status |-> 200, file |-> P_index]
    ELSE NoFile

\* The conditions of the single-page-application fallback besides the status.
spaApplies(options, method, pathname) ==
    /\ options.spa
    /\ options.hasStaticDirs
    /\ method = "GET:"
    /\ ~StartsWith(pathname, P_api)

\* The single-page-application fallback applies to this response.
spaFallback(options, status, method, pathname) ==
    /\ status = 404
    /\ spaApplies(options, method, pathname)

\* this.errorHandler.handle(error, context)
errorResponse(options) ==
    [kind |-> "error", status |-> 500, by |-> options.errorHandler]

\* A call of listen, ws or setErrorHandler while a request is in flight.
touch(options) ==
    [options EXCEPT !.req.touched = options.req.pc # "idle"]

\* handleRequest returns final, or rejects with it.
Answer(req, final) ==
    /\ last' = [method |-> req.method, path |-> req.path, static |-> req.static,
                out |-> req.out, final |-> final,
                clean |-> ~req.touched /\ req.start = Len(registered)]
    /\ app' = [app EXCEPT !.req = AppIdleRequest]

\* The request waits at an await; it is the latest request and has no
\* answer yet.
Suspend(req) ==
    /\ app' = [app EXCEPT !.req = req]
    /\ last' = NoOutcome

\* createContext and this.handle(context); await response
askRouter(req) ==
    [req EXCEPT !.pc = "routed",
                !.out = handle(radixRouter, globalMiddlewares, req.method, req.path)]

\* The catch for an error that is no Response: production tries the
\* fallback without a status; development goes to the error handler.
catch(req) ==
    IF app.isProduction /\ spaApplies(app, req.method, UrlPathname(req.path))
    THEN Suspend([req EXCEPT !.pc = "indexCatch",
                             !.index = handleStaticFile(app, P_index)])
    ELSE Answer(req, errorResponse(app))

\* handleRequest(req, server) up to its first await or its return.
HandleRequest(method, path) ==
    /\ app.req.pc = "idle"
    /\ LET pathname == UrlPathname(path)
           req == [AppIdleRequest EXCEPT !.method = method, !.path = path,
                                         !.start = Len(registered)]
       IN  IF method = "OPTIONS:"
           THEN Answer(req, [kind |-> "options", status |-> 204])
           ELSE IF method = "GET:" /\ pathname \in app.ws
           THEN \E upgraded \in BOOLEAN :
                    Answer(req, IF upgraded THEN [kind |-> "upgrade", status |-> 101]
                                ELSE [kind |-> "upgradeFailed", status |-> 400])
           ELSE IF app.hasStaticDirs
           THEN Suspend([req EXCEPT !.pc = "static",
                                    !.static = handleStaticFile(app, pathname)])
           ELSE Suspend(askRouter(req))
    /\ UNCHANGED <<mws, rq, radixVars, routers, registered, tm, rl, pl>>

\* After await this.handleStaticFile(pathname): its error rejects the
\* request, its file is the answer, and otherwise the router is asked.
StaticReturns ==
    /\ app.req.pc = "static"
    /\ IF app.req.static = StaticThrows
       THEN Answer(app.req, [kind |-> "reject", error |-> StaticThrows.error])
       ELSE IF app.req.static # NoFile THEN Answer(app.req, app.req.static)
       ELSE Suspend(askRouter(app.req))
    /\ UNCHANGED <<mws, rq, radixVars, routers, registered, tm, rl, pl>>

\* After await response: the fallback for a 404, the catch for an error.
RouterReturns ==
    /\ app.req.pc = "routed"
    /\ LET req == app.req
       IN  IF req.out.kind = "throw" THEN catch(req)
           ELSE IF spaFallback(app, req.out.status, req.method, UrlPathname(req.path))
           THEN Suspend([req EXCEPT !.pc = "index",
                                    !.index = handleStaticFile(app, P_index)])
           ELSE Answer(req, [kind |-> "response", status |-> req.out.status,
                             resp |-> req.out.resp])
    /\ UNCHANGED <<mws, rq, radixVars, routers, registered, tm, rl, pl>>

\* After await this.handleStaticFile('/index.html') in the try: index.html,
\* or the manual check, which awaits file.exists() for the directory of
\* this.serveOptions.staticDirectories, or, with no directory, the response
\* of the router.
IndexReturns ==
    /\ app.req.pc = "index"
    /\ LET req == app.req
       IN  IF req.index = StaticThrows THEN catch(req)
           ELSE IF req.index # NoFile THEN Answer(req, req.index)
           ELSE IF app.hasStaticDirs
           THEN Suspend([req EXCEPT
                           !.pc = "exists",
                           !.index = IF P_index \in app.files
                                     THEN [kind |-> "file", status |-> 200,
                                           file |-> P_index]
                                     ELSE NoFile])
           ELSE Answer(req, [kind |-> "response", status |-> req.out.status,
                             resp |-> req.out.resp])
    /\ UNCHANGED <<mws, rq, radixVars, routers, registered, tm, rl, pl>>

\* After await file.exists() of the manual check: the file, or the response
\* of the router.
ExistsReturns ==
    /\ app.req.pc = "exists"
    /\ LET req == app.req
       IN  IF req.index # NoFile THEN Answer(req, req.index)
           ELSE Answer(req, [kind |-> "response", status |-> req.out.status,
                             resp |-> req.out.resp])
    /\ UNCHANGED <<mws, rq, radixVars, routers, registered, tm, rl, pl>>

\* After await this.handleStaticFile('/index.html') in the catch of the
\* production branch.
IndexReturnsInCatch ==
    /\ app.req.pc = "indexCatch"
    /\ LET req == app.req
       IN  IF req.index = StaticThrows
           THEN Answer(req, [kind |-> "reject", error |-> StaticThrows.error])
           ELSE IF req.index # NoFile THEN Answer(req, req.index)
           ELSE Answer(req, errorResponse(app))
    /\ UNCHANGED <<mws, rq, radixVars, routers, registered, tm, rl, pl>>

\* listen(options): this.serveOptions = { ...this.serveOptions, ...options }
\* and hasStaticDirs is computed again; staticFileCache stays what the
\* constructor made it.
listen(options, o) ==
    [options EXCEPT
       !.spa = IF o.spa = <<>> THEN @ ELSE o.spa[1],
       !.hasStaticDirs = IF o.staticDirectories = <<>> THEN @
                         ELSE o.staticDirectories[1]]

Listen(o) ==
    /\ app' = touch(listen(app, o))
    /\ last' = NoOutcome
    /\ UNCHANGED <<mws, rq, radixVars, routers, registered, tm, rl, pl>>

\* ws(path, config)
Ws(path) ==
    /\ app' = touch([app EXCEPT !.ws = @ \cup {path}])
    /\ last' = NoOutcome
    /\ UNCHANGED <<mws, rq, radixVars, routers, registered, tm, rl, pl>>

\* setErrorHandler(handler)
SetErrorHandler ==
    /\ app' = touch([app EXCEPT !.errorHandler = "custom"])
    /\ last' = NoOutcome
    /\ UNCHANGED <<mws, rq, radixVars, routers, registered, tm, rl, pl>>

InitApp ==
    /\ mws = <<>>
    /\ rq = <<>>
    /\ prefix = <<>>
    /\ radixRouter = EmptyRadix
    /\ globalMiddlewares = <<>>
    /\ routers = <<>>
    /\ registered = <<>>
    /\ last = NoOutcome
    /\ app \in {NewApp(o) : o \in AppOptions}
    /\ tm = <<>>
    /\ rl = <<>>
    /\ pl = <<>>

NextApp ==
    \/ \E inp \in AppRouteInputs : AddRoute(inp[1], inp[2], inp[3])
    \/ \E req \in AppRequestInputs : HandleRequest(req[1], req[2])
    \/ StaticReturns
    \/ RouterReturns
    \/ IndexReturns
    \/ ExistsReturns
    \/ IndexReturnsInCatch
    \/ \E o \in ListenInputs : Listen(o)
    \/ \E path \in WsInputs : Ws(path)
    \/ SetErrorHandler

SpecApp == InitApp /\ [][NextApp]_vars

----------------------------------------------------------------------------
(***************************************************************************)
(* The timeout middleware (src/unnamed/part_010 24-58).  Each call of the  *)
(* middleware makes its own timer and its own Promise.race; tm.calls[r]    *)
(* is the call for request r.  The timer callback and the settling of      *)
(* next() are separate events and come in either order; the code after     *)
(* the await runs once the race is settled.                                *)
(***************************************************************************)
\* options: statusCode is <<>> when it is not given.
TimeoutOptionInputs == {[statusCode |-> <<>>], [statusCode |-> <<504>>]}
DownstreamResponses == {ResponseOfHandler("H1"), ResponseOfHandler("H2")}
DownstreamError == <<"error", "Error">>

\* options.statusCode ?? 408
DefaultStatusCode == 408
statusCodeOf(options) ==
    IF options.statusCode = <<>> THEN DefaultStatusCode ELSE options.statusCode[1]

\* new Response(JSON.stringify({error: 'Request Timeout', ...}), {status: statusCode})
TimeoutResponse(options) == <<"response", "Request Timeout", statusCodeOf(options)>>

Pending == [state |-> "pending"]
IdleCall ==
    [pc |-> "idle", timer |-> "none", next |-> "none", race |-> Pending,
     events |-> <<>>, result |-> <<>>]

\* A promise settles once: Promise.race takes the first of its inputs to
\* settle, and later settlements change nothing.
settleLast(promise, state, value) == [state |-> state, value |-> value]
settle(promise, state, value) ==
    IF promise.state = "pending" THEN [state |-> state, value |-> value] ELSE promise

\* The middleware is called: setTimeout(..., ms), next(), and the await of
\* Promise.race([next(), timeoutPromise]).
TimeoutCall(r) ==
    /\ tm.calls[r].pc = "idle"
    /\ tm' = [tm EXCEPT !.calls[r] =
                [@ EXCEPT !.pc = "awaiting", !.timer = "armed", !.next = "running"]]
    /\ UNCHANGED <<mws, rq, routerVars, app, rl, pl>>

\* next() resolves with the downstream response.
DownstreamResolves(r, resp) ==
    /\ tm.calls[r].next = "running"
    /\ tm' = [tm EXCEPT !.calls[r] =
                [@ EXCEPT !.next = "resolved",
                          !.events = Append(@, <<"next", resp>>),
                          !.race = settle(@, "fulfilled", resp)]]
    /\ UNCHANGED <<mws, rq, routerVars, app, rl, pl>>

\* next() rejects with an error of the downstream handler.
DownstreamRejects(r) ==
    /\ tm.calls[r].next = "running"
    /\ tm' = [tm EXCEPT !.calls[r] =
                [@ EXCEPT !.next = "rejected",
                          !.events = Append(@, <<"next", DownstreamError>>),
                          !.race = settle(@, "rejected", DownstreamError)]]
    /\ UNCHANGED <<mws, rq, routerVars, app, rl, pl>>

\* The timer callback: reject(new Response(..., {status: statusCode})).
TimerFires(r) ==
    /\ tm.calls[r].timer = "armed"
    /\ tm' = [tm EXCEPT !.calls[r] =
                [@ EXCEPT !.timer = "fired",
                          !.events = Append(@, <<"timer", TimeoutResponse(tm.options)>>),
                          !.race = settle(@, "rejected", TimeoutResponse(tm.options))]]
    /\ UNCHANGED <<mws, rq, routerVars, app, rl, pl>>

\* After the await: return response, or catch (error): return error when it
\* is a Response, throw it otherwise.
TimeoutReturns(r) ==
    /\ tm.calls[r].pc = "awaiting"
    /\ tm.calls[r].race.state # "pending"
    /\ LET race == tm.calls[r].race
       IN  tm' = [tm EXCEPT !.calls[r] =
                    [@ EXCEPT !.pc = IF race.state = "rejected" /\ race.value[1] # "response"
                                     THEN "thrown" ELSE "returned",
                              !.result = race.value]]
    /\ UNCHANGED <<mws, rq, routerVars, app, rl, pl>>

InitTimeout ==
    /\ mws = <<>>
    /\ rq = <<>>
    /\ prefix = <<>>
    /\ radixRouter = EmptyRadix
    /\ globalMiddlewares = <<>>
    /\ routers = <<>>
    /\ registered = <<>>
    /\ last = NoOutcome
    /\ app = <<>>
    /\ tm \in [options : TimeoutOptionInputs, calls : {[r \in Requests |-> IdleCall]}]
    /\ rl = <<>>
    /\ pl = <<>>

NextTimeout ==
    \E r \in Requests :
        \/ TimeoutCall(r)
        \/ \E resp \in DownstreamResponses : DownstreamResolves(r, resp)
        \/ DownstreamRejects(r)
        \/ TimerFires(r)
        \/ TimeoutReturns(r)

SpecTimeout == InitTimeout /\ [][NextTimeout]_vars

----------------------------------------------------------------------------
(***************************************************************************)
(* rateLimit with a MemoryStore (src/src/middleware/rate-limit.ts 25-58,   *)
(* 179-248).  The store is an LRU cache of at most options.max entries     *)
(* (lru-cache: get and set make the entry the most recently used one, a    *)
(* set of a new key on a full cache drops the least recently used entry,   *)
(* and get gives nothing for an entry older than its ttl, by a clock that  *)
(* it reads at most once per ttlResolution); rl.cache lists                *)
(* the entries from the least to the most recently used.  The cache holds  *)
(* references: rl.objects are the RateLimitInfo objects, and increment     *)
(* returns the very object that the cache holds.  The middleware awaits    *)
(* store.increment, so the code after the await runs in a later microtask  *)
(* and reads the object as it then is; the calls resume in the order in    *)
(* which they were made.  Time is counted in ticks of Date.now().          *)
(***************************************************************************)
MaxHits == 3        \* requests through the middleware
MaxTime == 3        \* ticks of the clock

WindowMs == 2
TooManyRequests == 429
StoreTtl == 60000
RateLimitKeys == {"a", "b"}
\* rateLimit({max, windowMs, skip, store: new MemoryStore({max: storeMax})})
RateLimitOptionInputs == [max : {1, 2}, storeMax : {1, 2}, skip : {<<>>, <<P_x>>}]
\* The paths of the requests.
RateLimitPaths == {P_u, P_x}
\* The arguments of the calls of store.set(key, info, ttlMs) that the
\* application makes itself, for one of the keys; resetTime is the end of a
\* window from now.
StoreSetKeys == {"a"}
StoreSetInputs == [total : {2}, ttlMs : {1}]

NoObject == 0

CacheIndex(cache, key) ==
    IF \E i \in 1..Len(cache) : cache[i].key = key
    THEN CHOOSE i \in 1..Len(cache) : cache[i].key = key
    ELSE 0

\* lru-cache reads the clock for its ttl at most once per ttlResolution (1
\* by default): the first isStale reads it, keeps what it read and sets a
\* timer that drops the kept value; until the timer has run, isStale
\* compares with the kept value.  cachedNow is the kept value.
NoClock == -1
TtlResolution == 1
ttlClock(cachedNow, now) == IF cachedNow # NoClock THEN cachedNow ELSE now

\* lru-cache: an entry is stale when it is older than its ttl.
isStale(entry, clock) == clock - entry.start > entry.ttl

\* this.cache.get(key): the object of the entry, NoObject for undefined.
cacheGet(cache, key, clock) ==
    LET i == CacheIndex(cache, key)
    IN  IF i = 0 \/ isStale(cache[i], clock) THEN NoObject ELSE cache[i].obj

\* The cache after this.cache.get(key): a stale entry is deleted, a fresh
\* one becomes the most recently used.
cacheAfterGet(cache, key, clock) ==
    LET i == CacheIndex(cache, key)
        others == SelectSeq(cache, LAMBDA e : e.key # key)
    IN  IF i = 0 THEN cache
        ELSE IF isStale(cache[i], clock) THEN others
        ELSE Append(others, cache[i])

\* The kept clock value after this.cache.get(key): isStale is asked when the
\* key has an entry.
cachedAfterGet(cache, key, cachedNow, now) ==
    IF CacheIndex(cache, key) = 0 THEN cachedNow ELSE ttlClock(cachedNow, now)

\* this.cache.set(key, info, {ttl}) on a cache of at most storeMax entries.
cacheSet(cache, entry, storeMax) ==
    LET others == SelectSeq(cache, LAMBDA e : e.key # entry.key)
    IN  IF Len(others) >= storeMax
        THEN Append(SubSeq(others, Len(others) - storeMax + 2, Len(others)), entry)
        ELSE Append(others, entry)

\* MemoryStore.increment(key, windowMs): the objects and the cache after it,
\* and the object that it returns.
increment(store, key, now, windowMs) ==
    LET found == cacheGet(store.cache, key, ttlClock(store.cachedNow, now))
        opens == found = NoObject \/ now > store.objects[found].resetTime
        info == IF opens THEN Len(store.objects) + 1 ELSE found
        objects == IF opens
                   THEN Append(store.objects,
                               [total |-> 1, resetTime |-> now + windowMs])
                   ELSE [store.objects EXCEPT ![found].total = @ + 1]
    IN  [objects |-> objects,
         cache |-> cacheSet(store.cache,
                            [key |-> key, obj |-> info, start |-> now,
                             ttl |-> StoreTtl],
                            store.storeMax),
         cachedNow |-> cachedAfterGet(store.cache, key, store.cachedNow, now),
         info |-> info]

\* skip.some((p) => url.pathname.startsWith(p))
shouldSkip(skip, pathname) ==
    \E k \in 1..Len(skip) : StartsWith(pathname, skip[k])

\* The middleware up to its first await: a skipped path goes to next() at
\* once; otherwise store.increment runs and the call waits for its promise.
RateLimit(key, path) ==
    /\ Len(rl.hits) < MaxHits
    /\ IF shouldSkip(rl.options.skip, UrlPathname(path))
       THEN rl' = [rl EXCEPT
                     !.hits = Append(@, [key |-> key, time |-> rl.now,
                                         pc |-> "done", skipped |-> TRUE,
                                         info |-> NoObject, total |-> 0,
                                         next |-> TRUE, status |-> 200])]
       ELSE LET inc == increment([objects |-> rl.objects, cache |-> rl.cache,
                                  storeMax |-> rl.options.storeMax,
                                  cachedNow |-> rl.cachedNow],
                                 key, rl.now, WindowMs)
            IN  rl' = [rl EXCEPT
                         !.objects = inc.objects,
                         !.cache = inc.cache,
                         !.cachedNow = inc.cachedNow,
                         !.hits = Append(@, [key |-> key, time |-> rl.now,
                                             pc |-> "await", skipped |-> FALSE,
                                             info |-> inc.info, total |-> 0,
                                             next |-> FALSE, status |-> 0])]
    /\ UNCHANGED <<mws, rq, routerVars, app, tm, pl>>

\* The call that resumes next: the one that has waited longest.
Awaiting == {h \in 1..Len(rl.hits) : rl.hits[h].pc = "await"}

\* The middleware after the await: info.total > max gives the statusCode
\* response, otherwise next().
RateLimitResumes ==
    /\ Awaiting # {}
    /\ LET h == CHOOSE x \in Awaiting : \A y \in Awaiting : x <= y
           total == rl.objects[rl.hits[h].info].total
           exceeded == total > rl.options.max
       IN  rl' = [rl EXCEPT
                    !.hits[h] = [@ EXCEPT !.pc = "done",
                                          !.total = total,
                                          !.next = ~exceeded,
                                          !.status = IF exceeded THEN TooManyRequests
                                                     ELSE 200]]
    /\ UNCHANGED <<mws, rq, routerVars, app, tm, pl>>

\* store.set(key, info, ttlMs), called by the application on the store that
\* it gave to rateLimit.
StoreSet(key, inp) ==
    /\ rl.sets = 0
    /\ rl' = [rl EXCEPT
                !.sets = @ + 1,
                !.objects = Append(@, [total |-> inp.total,
                                       resetTime |-> rl.now + WindowMs]),
                !.cache = cacheSet(@, [key |-> key, obj |-> Len(rl.objects) + 1,
                                       start |-> rl.now, ttl |-> inp.ttlMs],
                                   rl.options.storeMax)]
    /\ UNCHANGED <<mws, rq, routerVars, app, tm, pl>>

\* store.get(key), called by the application on the store that it gave to
\* rateLimit.
StoreGet(key) ==
    /\ rl' = [rl EXCEPT
                !.cache = cacheAfterGet(@, key, ttlClock(rl.cachedNow, rl.now)),
                !.cachedNow = cachedAfterGet(rl.cache, key, @, rl.now)]
    /\ UNCHANGED <<mws, rq, routerVars, app, tm, pl>>

\* The timer of lru-cache runs, ttlResolution after the clock was read and
\* when no continuation is waiting: the next isStale reads the clock again.
TtlTimerFires ==
    /\ rl.cachedNow # NoClock
    /\ rl.now - rl.cachedNow >= TtlResolution
    /\ Awaiting = {}
    /\ rl' = [rl EXCEPT !.cachedNow = NoClock]
    /\ UNCHANGED <<mws, rq, routerVars, app, tm, pl>>

\* Date.now() advances.
Tick ==
    /\ rl.now < MaxTime
    /\ rl' = [rl EXCEPT !.now = @ + 1]
    /\ UNCHANGED <<mws, rq, routerVars, app, tm, pl>>

InitRateLimit ==
    /\ mws = <<>>
    /\ rq = <<>>
    /\ prefix = <<>>
    /\ radixRouter = EmptyRadix
    /\ globalMiddlewares = <<>>
    /\ routers = <<>>
    /\ registered = <<>>
    /\ last = NoOutcome
    /\ app = <<>>
    /\ tm = <<>>
    /\ pl = <<>>
    /\ rl \in [options : RateLimitOptionInputs, now : {0}, objects : {<<>>},
               cache : {<<>>}, cachedNow : {NoClock}, hits : {<<>>}, sets : {0}]

NextRateLimit ==
    \/ \E key \in RateLimitKeys : \E path \in RateLimitPaths : RateLimit(key, path)
    \/ RateLimitResumes
    \/ \E key \in StoreSetKeys : \E inp \in StoreSetInputs : StoreSet(key, inp)
    \/ \E key \in RateLimitKeys : StoreGet(key)
    \/ TtlTimerFires
    \/ Tick

SpecRateLimit == InitRateLimit /\ [][NextRateLimit]_vars

----------------------------------------------------------------------------
(***************************************************************************)
(* RedisStore (src/src/middleware/rate-limit.ts 76-131) for one key:       *)
(* increment(key, windowMs) calls that overlap, and a set(key, info,       *)
(* ttlMs) call that the application makes itself.  Each Redis command is   *)
(* atomic; the awaits between them are where the calls interleave.         *)
(* rl.hash is the hash of the key with its expiry; a key whose expiry has  *)
(* passed is absent for every command.  HMSET keeps the expiry that the    *)
(* key has, HINCRBY of an absent key makes a hash with the field total     *)
(* only and no expiry, and parseInt of the missing resetTime is NaN        *)
(* (hasResetTime FALSE).  The clock advances in steps of RedisTickMs.      *)
(***************************************************************************)
RedisCallers == 1..MaxHits
RedisMaxInputs == {1, 2}
RedisWindowMs == 1000
RedisTickMs == 500
MsPerSecond == 1000

NoHash == [present |-> FALSE, total |-> 0, resetTime |-> 0, hasResetTime |-> FALSE,
           expireAt |-> 0, hasExpire |-> FALSE]
NoInfo == [present |-> FALSE, total |-> 0, resetTime |-> 0, hasResetTime |-> FALSE]
IdleIncrement == [pc |-> "idle", at |-> 0, info |-> NoInfo, result |-> NoInfo]

\* The key as a command that runs at time now finds it.
stored(hash, now) ==
    IF hash.present /\ hash.hasExpire /\ now > hash.expireAt THEN NoHash ELSE hash

\* get(key): hmget total, resetTime; null when there is no total.
redisGet(hash) ==
    IF ~hash.present THEN NoInfo
    ELSE [present |-> TRUE, total |-> hash.total, resetTime |-> hash.resetTime,
          hasResetTime |-> hash.hasResetTime]

\* !info || now > info.resetTime; a comparison with NaN is false.
newWindow(info, now) ==
    ~info.present \/ (info.hasResetTime /\ now > info.resetTime)

\* set(key, info, ttlMs), first command: hmset total, resetTime.
redisSet(hash, info) ==
    [hash EXCEPT !.present = TRUE, !.total = info.total,
                 !.resetTime = info.resetTime, !.hasResetTime = TRUE]

\* set(key, info, ttlMs), second command: expire Math.ceil(ttlMs / 1000).
expire(hash, now, ttlMs) ==
    IF ~hash.present THEN hash
    ELSE [hash EXCEPT
            !.hasExpire = TRUE,
            !.expireAt = now + ((ttlMs + MsPerSecond - 1) \div MsPerSecond) * MsPerSecond]

\* hincrby(redisKey, 'total', 1): the hash after it.
hincrby(hash) == [hash EXCEPT !.present = TRUE, !.total = @ + 1]

\* const now = Date.now(); let info = await this.get(key)
IncrementGets(c) ==
    /\ rl.calls[c].pc = "idle"
    /\ rl' = [rl EXCEPT !.hash = stored(@, rl.now),
                        !.calls[c] = [pc |-> "got", at |-> rl.now,
                                       info |-> redisGet(stored(rl.hash, rl.now)),
                                       result |-> NoInfo]]
    /\ UNCHANGED <<mws, rq, routerVars, app, tm, pl>>

\* The branch on the info that was read: a new window starts set() with its
\* hmset, otherwise the total is incremented with hincrby and the call
\* returns the info that it read with the new total.
IncrementWrites(c) ==
    /\ rl.calls[c].pc = "got"
    /\ LET call == rl.calls[c]
           hash == stored(rl.hash, rl.now)
           opened == [present |-> TRUE, total |-> 1,
                      resetTime |-> call.at + RedisWindowMs, hasResetTime |-> TRUE]
       IN  IF newWindow(call.info, call.at)
           THEN rl' = [rl EXCEPT !.hash = redisSet(hash, opened),
                                 !.calls[c].pc = "hmset",
                                 !.calls[c].info = opened]
           ELSE rl' = [rl EXCEPT !.hash = hincrby(hash),
                                 !.calls[c].pc = "done",
                                 !.calls[c].result =
                                     [call.info EXCEPT !.total = hincrby(hash).total]]
    /\ UNCHANGED <<mws, rq, routerVars, app, tm, pl>>

\* set() of a new window, after its hmset: expire, and increment returns.
IncrementExpires(c) ==
    /\ rl.calls[c].pc = "hmset"
    /\ rl' = [rl EXCEPT !.hash = expire(stored(@, rl.now), rl.now, RedisWindowMs),
                        !.calls[c].pc = "done",
                        !.calls[c].result = rl.calls[c].info]
    /\ UNCHANGED <<mws, rq, routerVars, app, tm, pl>>

\* store.set(key, {total, resetTime: now + windowMs}, windowMs) called by the
\* application: its hmset.
RedisSetWrites(total) ==
    /\ rl.setter = "idle"
    /\ rl' = [rl EXCEPT
                !.hash = redisSet(stored(@, rl.now),
                                  [total |-> total,
                                   resetTime |-> rl.now + RedisWindowMs]),
                !.setter = "hmset"]
    /\ UNCHANGED <<mws, rq, routerVars, app, tm, pl>>

\* store.set called by the application: its expire.
RedisSetExpires ==
    /\ rl.setter = "hmset"
    /\ rl' = [rl EXCEPT !.hash = expire(stored(@, rl.now), rl.now, RedisWindowMs),
                        !.setter = "done"]
    /\ UNCHANGED <<mws, rq, routerVars, app, tm, pl>>

\* Date.now() and the clock of the Redis server advance.
RedisTick ==
    /\ rl.now < MaxTime * RedisTickMs
    /\ rl' = [rl EXCEPT !.now = @ + RedisTickMs]
    /\ UNCHANGED <<mws, rq, routerVars, app, tm, pl>>

InitRedis ==
    /\ mws = <<>>
    /\ rq = <<>>
    /\ prefix = <<>>
    /\ radixRouter = EmptyRadix
    /\ globalMiddlewares = <<>>
    /\ routers = <<>>
    /\ registered = <<>>
    /\ last = NoOutcome
    /\ app = <<>>
    /\ tm = <<>>
    /\ pl = <<>>
    /\ rl \in [max : RedisMaxInputs, now : {0}, hash : {NoHash},
               calls : {[c \in RedisCallers |-> IdleIncrement]},
               setter : {"idle"}]

NextRedis ==
    \/ \E c \in RedisCallers : IncrementGets(c)
    \/ \E c \in RedisCallers : IncrementWrites(c)
    \/ \E c \in RedisCallers : IncrementExpires(c)
    \/ \E total \in {0} : RedisSetWrites(total)
    \/ RedisSetExpires
    \/ RedisTick

SpecRedis == InitRedis /\ [][NextRedis]_vars

----------------------------------------------------------------------------
(***************************************************************************)
(* AsyncPool, src/src/utils/test-client.ts 274-359.  execute(fn): callers   *)
(* wait in a loop while the pool is full, racing the promises of the pool  *)
(* against a 5000 ms timer.  A task is named after its caller.  cleanup()  *)
(* waits for the promises that the pool holds when it is called and then   *)
(* clears the pool, whatever the pool holds by then.                       *)
(***************************************************************************)
MaxCallers == 3
PoolCallers == 1..MaxCallers
PoolSizes == {1, 2}
\* How a task ends: it resolves with a truthy value (a Response), resolves
\* with a falsy one (undefined), or rejects.
TaskOutcomes == {"truthy", "falsy", "reject"}

IdleCaller == [pc |-> "idle", race |-> {}, completed |-> "none"]
IdleCleanup == [pc |-> "idle", all |-> {}]

\* this.pool.size >= this.maxSize
poolFull(p) == Cardinality(p.pool) >= p.maxSize

\* const promise = fn().finally(...); this.pool.add(promise)
startTask(p, c) ==
    [p EXCEPT !.pool = @ \cup {c},
              !.callers[c] = [pc |-> "running", race |-> {}, completed |-> "none"]]

\* The test of the while loop: wait for Promise.race(Array.from(this.pool))
\* or the timer, or leave the loop and start the task.
enterLoop(p, c) ==
    IF poolFull(p)
    THEN [p EXCEPT !.callers[c] =
                      [pc |-> "waiting", race |-> p.pool, completed |-> "none"]]
    ELSE startTask(p, c)

\* completed: the value of the task that settled first, or null when the
\* race rejected (a task rejected, or the timer fired).
completedOf(outcome) == IF outcome = "truthy" THEN "value" ELSE "null"

\* if (completed) break
Breaks(completed) == completed = "value"

PoolExecute(c) ==
    /\ pl.callers[c].pc = "idle"
    /\ pl' = enterLoop(pl, c)
    /\ UNCHANGED <<mws, rq, routerVars, app, tm, rl>>

\* Promise.all(Array.from(this.pool)) of a cleanup() call when a task
\* settles: it rejects with the first of its promises that rejects and
\* resolves when all of them have resolved.
allSettles(cleanup, c, outcome) ==
    IF cleanup.pc # "waiting" \/ c \notin cleanup.all THEN cleanup
    ELSE IF outcome = "reject" \/ cleanup.all = {c}
    THEN [pc |-> "woken", all |-> {}]
    ELSE [cleanup EXCEPT !.all = @ \ {c}]

\* The task of caller c settles: finally() deletes its promise from the
\* pool and every race or Promise.all that holds the promise sees it.
TaskSettles(c, outcome) ==
    /\ pl.callers[c].pc = "running"
    /\ pl' = [pl EXCEPT
                !.pool = @ \ {c},
                !.cleanup = allSettles(@, c, outcome),
                !.callers = [w \in PoolCallers |->
                    IF w = c THEN [pc |-> "done", race |-> {}, completed |-> "none"]
                    ELSE IF pl.callers[w].pc = "waiting" /\ c \in pl.callers[w].race
                    THEN [pc |-> "woken", race |-> {},
                          completed |-> completedOf(outcome)]
                    ELSE pl.callers[w]]]
    /\ UNCHANGED <<mws, rq, routerVars, app, tm, rl>>

\* setTimeout(() => reject(new Error('Pool timeout')), 5000) fires first.
PoolTimeout(w) ==
    /\ pl.callers[w].pc = "waiting"
    /\ pl' = [pl EXCEPT !.callers[w] =
                          [pc |-> "woken", race |-> {}, completed |-> "null"]]
    /\ UNCHANGED <<mws, rq, routerVars, app, tm, rl>>

\* The await of the loop returns in caller w.
PoolResume(w) ==
    /\ pl.callers[w].pc = "woken"
    /\ pl' = IF Breaks(pl.callers[w].completed)
             THEN startTask(pl, w)
             ELSE enterLoop(pl, w)
    /\ UNCHANGED <<mws, rq, routerVars, app, tm, rl>>

\* cleanup(): await Promise.all(Array.from(this.pool))
PoolCleanup ==
    /\ pl.cleanup.pc = "idle"
    /\ pl' = [pl EXCEPT !.cleanup =
                          IF pl.pool = {} THEN [pc |-> "woken", all |-> {}]
                          ELSE [pc |-> "waiting", all |-> pl.pool]]
    /\ UNCHANGED <<mws, rq, routerVars, app, tm, rl>>

\* cleanup() after its await: finally { this.pool.clear() }
PoolCleanupResume ==
    /\ pl.cleanup.pc = "woken"
    /\ pl' = [pl EXCEPT !.pool = {}, !.cleanup = IdleCleanup]
    /\ UNCHANGED <<mws, rq, routerVars, app, tm, rl>>

\* execute() has returned to its caller, who may call it again.
PoolReturn(c) ==
    /\ pl.callers[c].pc = "done"
    /\ pl' = [pl EXCEPT !.callers[c] = IdleCaller]
    /\ UNCHANGED <<mws, rq, routerVars, app, tm, rl>>

InitPool ==
    /\ mws = <<>>
    /\ rq = <<>>
    /\ prefix = <<>>
    /\ radixRouter = EmptyRadix
    /\ globalMiddlewares = <<>>
    /\ routers = <<>>
    /\ registered = <<>>
    /\ last = NoOutcome
    /\ app = <<>>
    /\ tm = <<>>
    /\ rl = <<>>
    /\ pl \in [maxSize : PoolSizes, pool : {{}},
                callers : {[c \in PoolCallers |-> IdleCaller]},
                cleanup : {IdleCleanup}]

NextPool ==
    \/ \E c \in PoolCallers :
          \/ PoolExecute(c)
          \/ \E outcome \in TaskOutcomes : TaskSettles(c, outcome)
          \/ PoolTimeout(c)
          \/ PoolResume(c)
          \/ PoolReturn(c)
    \/ PoolCleanup
    \/ PoolCleanupResume

SpecPool == InitPool /\ [][NextPool]_vars

----------------------------------------------------------------------------
(***************************************************************************)
(* ThanhHoa.handleRequest, src/src/core/thanh-hoa.core.ts 84-195: the      *)
(* request is a task of the request pool (addToRequestPool, 61-63) that    *)
(* hands a second task to the same pool, unless it is an OPTIONS request   *)
(* (88-90) or a request under a static directory (93-115): these are       *)
(* answered by the first task, the latter after the await of               *)
(* file.exists().  The pool is the AsyncPool of                            *)
(* src/src/utils/test-client.ts 202-236.  A handler returns a response or  *)
(* throws an error that is no HttpException (179-186): then the inner and  *)
(* the outer task reject, and so does every race of a waiting execute()    *)
(* that holds their promises; execute() has no catch around its race, so   *)
(* the waiting call rejects without starting its task.  JavaScript runs    *)
(* one piece of code at a time: everything between two awaits is one step. *)
(***************************************************************************)
MaxArrivals == 3
Arrivals == 1..MaxArrivals
NestedPoolSizes == {1, 2, 3}

Outer(r) == <<r, "outer">>
Inner(r) == <<r, "inner">>

\* What a request is: for a route, OPTIONS, or a path of a static directory.
RequestKinds == {"route", "options", "static"}

IdleArrival ==
    [pc |-> "idle", kind |-> "route", level |-> "outer", race |-> {},
     failed |-> FALSE]

\* execute(): const promise = fn().finally(...) comes before
\* this.pool.add(promise), and the outer task reaches its own
\* addToRequestPool call without awaiting: the inner execute() tests the
\* pool while the outer promise is not yet in it.
PoolSeenWithOuter(pool, outer) == pool \cup {outer}
PoolSeenByTask(pool, outer) == pool

waitFor(p, r, level, race) ==
    [p EXCEPT !.reqs[r] = [@ EXCEPT !.pc = "waiting", !.level = level,
                                    !.race = race]]

\* The inner execute() has left its loop: the handler is started and the
\* inner promise is added.
startInner(p, r) ==
    [p EXCEPT !.pool = @ \cup {Inner(r)},
              !.reqs[r] = [@ EXCEPT !.pc = "handling", !.level = "inner",
                                    !.race = {}]]

\* The outer execute() has left its loop: fn() runs up to its first await
\* or its return, and then the outer promise is added.  For a route that
\* is the inner execute(), which tests the pool and starts or waits; an
\* OPTIONS request returns its response; a static request awaits
\* file.exists().
startOuter(p, r) ==
    LET seen == PoolSeenByTask(p.pool, Outer(r))
        inner == IF p.reqs[r].kind = "options"
                 THEN [p EXCEPT !.reqs[r].pc = "unwinding", !.reqs[r].race = {}]
                 ELSE IF p.reqs[r].kind = "static"
                 THEN [p EXCEPT !.reqs[r].pc = "exists", !.reqs[r].race = {}]
                 ELSE IF Cardinality(seen) >= p.maxSize
                 THEN waitFor(p, r, "inner", seen)
                 ELSE startInner(p, r)
    IN  [inner EXCEPT !.pool = @ \cup {Outer(r)}]

\* while (this.pool.size >= this.maxSize) await Promise.race(...)
nestedExecute(p, r, level) ==
    IF Cardinality(p.pool) >= p.maxSize
    THEN waitFor(p, r, level, p.pool)
    ELSE IF level = "outer" THEN startOuter(p, r) ELSE startInner(p, r)

\* A promise of the pool settles: every race that holds it settles the
\* same way, resolved or rejected.
wake(reqs, task, rejected) ==
    [w \in Arrivals |->
        IF reqs[w].pc = "waiting" /\ task \in reqs[w].race
        THEN [reqs[w] EXCEPT !.pc = IF rejected THEN "thrown" ELSE "woken",
                             !.race = {}]
        ELSE reqs[w]]

\* handleRequest(req, server) is called.
RequestArrives(r, kind) ==
    /\ pl.reqs[r].pc = "idle"
    /\ pl' = nestedExecute([pl EXCEPT !.reqs[r].kind = kind], r, "outer")
    /\ UNCHANGED <<mws, rq, routerVars, app, tm, rl>>

\* await file.exists() returns in the outer task of a static request, which
\* returns the file or the File Not Found response.
FileExists(r) ==
    /\ pl.reqs[r].pc = "exists"
    /\ pl' = [pl EXCEPT !.reqs[r].pc = "unwinding"]
    /\ UNCHANGED <<mws, rq, routerVars, app, tm, rl>>

\* The handler has returned: the inner task settles and finally() deletes
\* its promise.
HandlerReturns(r) ==
    /\ pl.reqs[r].pc = "handling"
    /\ pl' = [pl EXCEPT
                !.pool = @ \ {Inner(r)},
                !.reqs = [wake(pl.reqs, Inner(r), FALSE) EXCEPT
                            ![r].pc = "unwinding"]]
    /\ UNCHANGED <<mws, rq, routerVars, app, tm, rl>>

\* The handler has thrown an error that is no HttpException: the inner task
\* rejects and finally() deletes its promise.
HandlerThrowsError(r) ==
    /\ pl.reqs[r].pc = "handling"
    /\ pl' = [pl EXCEPT
                !.pool = @ \ {Inner(r)},
                !.reqs = [wake(pl.reqs, Inner(r), TRUE) EXCEPT
                            ![r].pc = "unwinding", ![r].failed = TRUE]]
    /\ UNCHANGED <<mws, rq, routerVars, app, tm, rl>>

\* The outer task settles with the inner one's response or rejection, or
\* with its own response: finally() deletes its promise and handleRequest
\* returns the response or rejects.
OuterSettles(r) ==
    /\ pl.reqs[r].pc = "unwinding"
    /\ pl' = [pl EXCEPT
                !.pool = @ \ {Outer(r)},
                !.reqs = [wake(pl.reqs, Outer(r), pl.reqs[r].failed) EXCEPT
                            ![r].pc = IF pl.reqs[r].failed THEN "rejected"
                                      ELSE "done"]]
    /\ UNCHANGED <<mws, rq, routerVars, app, tm, rl>>

\* await Promise.race(Array.from(this.pool)) throws in a waiting execute():
\* the call rejects and its task is not started.  The outer call is
\* handleRequest itself; the inner call is what the outer task returns.
ExecuteThrows(r) ==
    /\ pl.reqs[r].pc = "thrown"
    /\ pl' = [pl EXCEPT
                !.reqs[r] = [@ EXCEPT !.failed = TRUE,
                                      !.pc = IF pl.reqs[r].level = "outer"
                                             THEN "rejected" ELSE "unwinding"]]
    /\ UNCHANGED <<mws, rq, routerVars, app, tm, rl>>

\* The await of the loop returns and the loop tests the pool again.
NestedResume(r) ==
    /\ pl.reqs[r].pc = "woken"
    /\ pl' = nestedExecute(pl, r, pl.reqs[r].level)
    /\ UNCHANGED <<mws, rq, routerVars, app, tm, rl>>

InitNested ==
    /\ mws = <<>>
    /\ rq = <<>>
    /\ prefix = <<>>
    /\ radixRouter = EmptyRadix
    /\ globalMiddlewares = <<>>
    /\ routers = <<>>
    /\ registered = <<>>
    /\ last = NoOutcome
    /\ app = <<>>
    /\ tm = <<>>
    /\ rl = <<>>
    /\ pl \in [maxSize : NestedPoolSizes, pool : {{}},
                reqs : {[r \in Arrivals |-> IdleArrival]}]

NextNested ==
    \E r \in Arrivals :
        \/ \E kind \in RequestKinds : RequestArrives(r, kind)
        \/ FileExists(r)
        \/ HandlerReturns(r)
        \/ HandlerThrowsError(r)
        \/ OuterSettles(r)
        \/ ExecuteThrows(r)
        \/ NestedResume(r)

\* Every handler eventually returns, the file system eventually answers,
\* and a settled promise's continuation is eventually run.
SpecNested ==
    /\ InitNested
    /\ [][NextNested]_vars
    /\ \A r \in Arrivals :
           /\ WF_vars(HandlerReturns(r))
           /\ WF_vars(FileExists(r))
           /\ WF_vars(OuterSettles(r))
           /\ WF_vars(NestedResume(r))
           /\ WF_vars(ExecuteThrows(r))

Init ==
    /\ mws \in Chains
    /\ rq = [r \in Requests |-> IdleRequest]
    /\ prefix = <<>>
    /\ radixRouter = EmptyRadix
    /\ globalMiddlewares = <<>>
    /\ routers = <<>>
    /\ registered = <<>>
    /\ last = NoOutcome
    /\ AuxIdle

Next ==
    \E r \in Requests :
        \/ Invoke(r)
        \/ DispatchHandler(r)
        \/ HandlerSuspends(r)
        \/ HandlerResolves(r)
        \/ DispatchCallsNext(r)
        \/ DispatchShortCircuit(r)
        \/ ResumeAfterNext(r)
        \/ Complete(r)
        \/ Deliver(r)

Spec == Init /\ [][Next]_vars

----------------------------------------------------------------------------
(***************************************************************************)
(* Errors in the chain.  Neither compose() nor handle() has a try/catch    *)
(* (router.core.ts 188-219): an error raised by the handler or by a        *)
(* middleware rejects the promise of the dispatch call it was raised in,   *)
(* and that rejection is what the enclosing middleware's await next()      *)
(* throws.                                                                 *)
(***************************************************************************)
ThrowChains == SeqsUpTo({"A", "C", "X"}, MaxChain)

\* next() of the last middleware runs a handler that throws.
HandlerThrows(r) ==
    /\ rq[r].pc = "dispatch"
    /\ AtEnd(DispatchIndex(r), mws)
    /\ rq' = [rq EXCEPT ![r].pc = "throw",
                        ![r].log = Append(@, Event(TheHandler, -1, "throw")),
                        ![r].resp = ErrorOf(TheHandler)]
    /\ UNCHANGED <<auxVars, mws, routerVars>>

\* dispatch(index) calls middlewares[index], which throws.
MiddlewareThrows(r) ==
    /\ rq[r].pc = "dispatch"
    /\ ~AtEnd(DispatchIndex(r), mws)
    /\ Throws(MiddlewareAt(DispatchIndex(r), mws))
    /\ rq' = [rq EXCEPT
                ![r].pc = "throw",
                ![r].log = Append(@, Event(MiddlewareAt(DispatchIndex(r), mws),
                                           DispatchIndex(r), "throw")),
                ![r].resp = ErrorOf(MiddlewareAt(DispatchIndex(r), mws))]
    /\ UNCHANGED <<auxVars, mws, routerVars>>

\* await next() throws in a middleware without try/catch: its code after
\* next() does not run and its own promise rejects with the same error.
PropagateThrough(r) ==
    /\ rq[r].pc = "throw"
    /\ rq[r].stack # <<>>
    /\ ~Catches(MiddlewareAt(rq[r].stack[Len(rq[r].stack)], mws))
    /\ rq' = [rq EXCEPT ![r].stack = SubSeq(@, 1, Len(@) - 1)]
    /\ UNCHANGED <<auxVars, mws, routerVars>>

\* await next() throws inside the try of a middleware that catches: it
\* returns a response of its own.
CatchInMiddleware(r) ==
    /\ rq[r].pc = "throw"
    /\ rq[r].stack # <<>>
    /\ LET top == rq[r].stack[Len(rq[r].stack)]
       IN  /\ Catches(MiddlewareAt(top, mws))
           /\ rq' = [rq EXCEPT
                       ![r].pc = "return",
                       ![r].log = Append(@, Event(MiddlewareAt(top, mws), top, "catch")),
                       ![r].resp = ResponseOfMiddleware(MiddlewareAt(top, mws)),
                       ![r].stack = SubSeq(@, 1, Len(@) - 1)]
    /\ UNCHANGED <<auxVars, mws, routerVars>>

\* What the promise of handle() settles to when the error leaves
\* dispatch(0): handle() is async and has no catch, so it rejects with it.
RejectionAsResponse(error) == <<"response", "Internal Server Error">>
Rejection(error) == <<"rejected", error>>

\* The error has left dispatch(0): the promise of handle() rejects.
Reject(r) ==
    /\ rq[r].pc = "throw"
    /\ rq[r].stack = <<>>
    /\ rq' = [rq EXCEPT ![r].pc = "rejected",
                        ![r].resp = Rejection(rq[r].resp)]
    /\ UNCHANGED <<auxVars, mws, routerVars>>

\* The caller has received the rejection; the next request of this
\* connection arrives.  failed remembers that the one before it failed.
Recover(r) ==
    /\ rq[r].pc = "rejected"
    /\ rq' = [rq EXCEPT ![r] = [IdleRequest EXCEPT !.failed = TRUE]]
    /\ UNCHANGED <<auxVars, mws, routerVars>>

InitThrow ==
    /\ mws \in ThrowChains
    /\ rq = [r \in Requests |-> IdleRequest]
    /\ prefix = <<>>
    /\ radixRouter = EmptyRadix
    /\ globalMiddlewares = <<>>
    /\ routers = <<>>
    /\ registered = <<>>
    /\ last = NoOutcome
    /\ AuxIdle

NextThrow ==
    \E r \in Requests :
        \/ Invoke(r)
        \/ DispatchHandler(r)
        \/ HandlerThrows(r)
        \/ DispatchCallsNext(r)
        \/ MiddlewareThrows(r)
        \/ ResumeAfterNext(r)
        \/ PropagateThrough(r)
        \/ CatchInMiddleware(r)
        \/ Complete(r)
        \/ Reject(r)
        \/ Deliver(r)
        \/ Recover(r)

SpecThrow == InitThrow /\ [][NextThrow]_vars

----------------------------------------------------------------------------
(***************************************************************************)
(* A middleware that calls next() more than once.  The next() handed to    *)
(* middlewares[index] is the closure () => dispatch(index + 1)             *)
(* (router.core.ts 216): every call of it starts dispatch at index + 1.    *)
(***************************************************************************)
AgainChains == SeqsUpTo({"A", "D"}, MaxChain)

\* The index that a repeated next() of the middleware at position top
\* dispatches.
AgainIndexMutable(r, top) == NextIndex(rq[r].index)
AgainIndex(r, top) == NextIndex(top)

\* The first next() of a middleware that calls next() twice has resolved:
\* it calls next() again.
CallNextAgain(r) ==
    /\ Resolved(r)
    /\ rq[r].stack # <<>>
    /\ LET top == rq[r].stack[Len(rq[r].stack)]
       IN  /\ CallsNextTwice(MiddlewareAt(top, mws))
           /\ top \notin rq[r].again
           /\ rq' = [rq EXCEPT
                       ![r].pc = "dispatch",
                       ![r].log = Append(@, Event(MiddlewareAt(top, mws), top, "again")),
                       ![r].again = @ \cup {top},
                       ![r].index = AgainIndex(r, top)]
    /\ UNCHANGED <<auxVars, mws, routerVars>>

InitAgain ==
    /\ mws \in AgainChains
    /\ rq = [r \in Requests |-> IdleRequest]
    /\ prefix = <<>>
    /\ radixRouter = EmptyRadix
    /\ globalMiddlewares = <<>>
    /\ routers = <<>>
    /\ registered = <<>>
    /\ last = NoOutcome
    /\ AuxIdle

NextAgain ==
    \E r \in Requests :
        \/ Invoke(r)
        \/ DispatchHandler(r)
        \/ DispatchCallsNext(r)
        \/ CallNextAgain(r)
        \/ ResumeAfterNext(r)
        \/ Complete(r)
        \/ Deliver(r)

SpecAgain == InitAgain /\ [][NextAgain]_vars

----------------------------------------------------------------------------
(***************************************************************************)
(* The order compose() promises, written without the machine above: the    *)
(* middlewares before the first one that does not call next() run their    *)
(* code in list order, then that one (or the handler) runs, then the code  *)
(* after next() runs in reverse order.                                     *)
(***************************************************************************)
FirstStop(mwList) ==
    IF \E i \in 1..Len(mwList) : ~CallsNext(mwList[i])
    THEN CHOOSE i \in 1..Len(mwList) :
            /\ ~CallsNext(mwList[i])
            /\ \A j \in 1..(i - 1) : CallsNext(mwList[j])
    ELSE Len(mwList) + 1

ExpectedLog(mwList) ==
    LET k == FirstStop(mwList)
        befores == [i \in 1..(k - 1) |-> Event(mwList[i], i - 1, "before")]
        afters == [i \in 1..(k - 1) |-> Event(mwList[k - i], k - i - 1, "after")]
        middle == IF k > Len(mwList)
                  THEN <<Event(TheHandler, -1, "run")>>
                  ELSE <<Event(mwList[k], k - 1, "before")>>
    IN  befores \o middle \o afters

IsPrefix(s, t) == Len(s) <= Len(t) /\ s = SubSeq(t, 1, Len(s))
IsSuffix(s, t) == Len(s) <= Len(t) /\ s = SubSeq(t, Len(t) - Len(s) + 1, Len(t))

\* C1: for the middleware list [A, B] with handler H, where A and B each
\* call next() once, a request produces exactly A-before, B-before, H,
\* B-after, A-after: at every moment the events so far are a prefix of that
\* order, and when the request is done they are all of it.  The same holds
\* for every list of middlewares that all call next().
C1_Order ==
    \A r \in Requests :
        (\A i \in 1..Len(mws) : CallsNext(mws[i])) =>
            /\ IsPrefix(rq[r].log, ExpectedLog(mws))
            /\ rq[r].pc = "done" => rq[r].log = ExpectedLog(mws)
            /\ (mws = <<"A", "B">> /\ rq[r].pc = "done") =>
                   rq[r].log = << <<"A", 0, "before">>, <<"B", 1, "before">>,
                                  <<"H", -1, "run">>,
                                  <<"B", 1, "after">>, <<"A", 0, "after">> >>

C1_Witness ==
    \E r \in Requests :
        /\ mws = <<"A", "B">>
        /\ rq[r].pc = "done"
        /\ Len(rq[r].log) = 5

\* C2: when a middleware of the list returns a response without calling
\* next(), no middleware after it and not the handler run for that request,
\* and the response it returned is the result of the dispatch, after the
\* code after next() of the middlewares before it has run.
C2_ShortCircuit ==
    \A r \in Requests :
        LET k == FirstStop(mws)
        IN  k <= Len(mws) =>
                /\ \A e \in 1..Len(rq[r].log) :
                       /\ rq[r].log[e][3] # "run"
                       /\ rq[r].log[e][2] <= k - 1
                /\ rq[r].pc = "done" =>
                       /\ rq[r].resp = ResponseOfMiddleware(mws[k])
                       /\ rq[r].log = ExpectedLog(mws)

C2_Witness ==
    \E r \in Requests :
        /\ mws = <<"A", "S", "B">>
        /\ rq[r].pc = "done"
        /\ rq[r].resp = <<"response", "S">>

----------------------------------------------------------------------------
(***************************************************************************)
(* The Router of src/unnamed/part_011: routes are kept in a list, each     *)
(* with a regular expression built from its path, and handle() takes the   *)
(* first route of the list whose method and pattern match.                 *)
(*                                                                         *)
(* A pattern is a sequence of tokens: <<"lit", c>> for the character c and *)
(* <<"group">> for the capture group ([^\/]+).  The characters of the      *)
(* model's paths (letters, ":" and "/") have no special meaning in a       *)
(* RegExp source.  routeCache is never written, so it is always empty.     *)
(***************************************************************************)
MaxDepth == 2       \* group() calls nested in one another

P_n == <<"/", "n">>
P_aun == <<"/", "a", "/", "u", "/", "n">>
P_uun == <<"/", "u", "/", "u", "/", "n">>

\* Routes and requests of a router without groups.
P_uColon == <<"/", "u", "/", ":">>
RegexRouteInputs ==
    ({"GET:"} \X {P_root, P_u, P_uSlash, P_un, P_ui, P_uicj, P_uColon} \X {<<>>})
    \cup {<<"POST:", P_u, <<"A">>>>}
RegexRequestInputs ==
    ({"GET:"} \X {P_root, P_u, P_uSlash, P_un, P_ua, P_uac, P_uacb, P_x})
    \cup {<<"POST:", P_u>>}

\* Routes, group prefixes (by nesting depth) and requests of a router with
\* groups.
GroupRouteInputs == {<<"GET:", P_root, <<>>>>, <<"GET:", P_n, <<"B">>>>}
GroupPrefixes(depth) == IF depth = 1 THEN {P_u, P_a} ELSE {P_u}
\* The middleware handed to use() on the router itself and on the router of
\* a group callback.
GroupUseInput(depth) == IF depth = 1 THEN "G" ELSE "A"
GroupRequestInputs ==
    {"GET:"} \X {P_root, P_n, P_u, P_uSlash, P_un, P_aun, P_uun}

\* [\w]
IsWordChar(c) == c # "/" /\ c # ":"

\* The length of the longest run of word characters of s that starts at i.
RECURSIVE WordRun(_, _)
WordRun(s, i) ==
    IF i <= Len(s) /\ IsWordChar(s[i]) THEN 1 + WordRun(s, i + 1) ELSE 0

\* The length of the longest run of characters other than "/" from i.
RECURSIVE NonSlashRun(_, _)
NonSlashRun(s, i) ==
    IF i <= Len(s) /\ s[i] # "/" THEN 1 + NonSlashRun(s, i + 1) ELSE 0

\* fullPath.replace(/:([\w]+)(?=\/|$)/g, (_, name) => { paramNames.push(name);
\* return '([^\\/]+)' }): a ":" followed by a run of word characters that
\* ends at a "/" or at the end of the path becomes a group.
RECURSIVE CompilePattern(_, _, _, _)
CompilePattern(s, i, tokens, names) ==
    IF i > Len(s) THEN [tokens |-> tokens, paramNames |-> names]
    ELSE
        LET n == WordRun(s, i + 1)
        IN  IF /\ s[i] = ":"
               /\ n >= 1
               /\ (i + n + 1 > Len(s) \/ s[i + n + 1] = "/")
            THEN CompilePattern(s, i + n + 1, Append(tokens, <<"group">>),
                                Append(names, SubSeq(s, i + 1, i + n)))
            ELSE CompilePattern(s, i + 1, Append(tokens, <<"lit", s[i]>>), names)

\* path.match(new RegExp('^' + ... + '/?$')): the groups of the match, or no
\* match.  A group is always followed by "/" or by the end of the pattern,
\* so it takes the whole run of characters other than "/".
RECURSIVE MatchFrom(_, _, _, _, _)
MatchFrom(tokens, t, s, i, groups) ==
    IF t > Len(tokens)
    THEN IF i > Len(s) \/ (i = Len(s) /\ s[i] = "/")
         THEN [matched |-> TRUE, whole |-> s, groups |-> groups]
         ELSE [matched |-> FALSE]
    ELSE IF tokens[t][1] = "lit"
    THEN IF i <= Len(s) /\ s[i] = tokens[t][2]
         THEN MatchFrom(tokens, t + 1, s, i + 1, groups)
         ELSE [matched |-> FALSE]
    ELSE LET n == NonSlashRun(s, i)
         IN  IF n >= 1
             THEN MatchFrom(tokens, t + 1, s, i + n,
                            Append(groups, SubSeq(s, i, i + n - 1)))
             ELSE [matched |-> FALSE]

PathMatch(path, pattern) == MatchFrom(pattern, 1, path, 1, <<>>)

\* match[n]: the whole match for n = 0, the n-th group otherwise.
MatchAt(match, n) == IF n = 0 THEN match.whole ELSE match.groups[n]

\* route.paramNames.forEach((name, index) => params[name] = match[index + 1])
ParamValueOffByOne(match, index) == MatchAt(match, index)
ParamValue(match, index) == MatchAt(match, index + 1)

RECURSIVE ParamsFrom(_, _, _, _)
ParamsFrom(paramNames, match, k, params) ==
    IF k > Len(paramNames) THEN params
    ELSE ParamsFrom(paramNames, match, k + 1,
                    (paramNames[k] :> ParamValue(match, k - 1)) @@ params)

\* runMiddlewares(middlewares, index), part_011 184-195
RECURSIVE runMiddlewares(_, _, _)
runMiddlewares(mwList, handler, index) ==
    IF index < Len(mwList)
    THEN LET middleware == mwList[index + 1]
         IN  IF CallsNext(middleware)
             THEN LET inner == runMiddlewares(mwList, handler, index + 1)
                  IN  [log |-> <<Event(middleware, index, "before")>> \o inner.log
                                 \o <<Event(middleware, index, "after")>>,
                       resp |-> inner.resp]
             ELSE [log |-> <<Event(middleware, index, "before")>>,
                   resp |-> ResponseOfMiddleware(middleware)]
    ELSE [log |-> <<Event(handler, -1, "run")>>, resp |-> ResponseOfHandler(handler)]

\* handle(context): the loop over this.routes from position k.
RECURSIVE regexHandleFrom(_, _, _, _)
regexHandleFrom(router, method, path, k) ==
    IF k > Len(router.routes) THEN [kind |-> "null", log |-> <<>>]
    ELSE
        LET route == router.routes[k]
            match == PathMatch(path, route.pattern)
        IN  IF route.method = method /\ match.matched
            THEN LET chain == router.globalMiddlewares \o route.middlewares
                     run == runMiddlewares(chain, route.handler, 0)
                 IN  [kind |-> "response", matched |-> TRUE,
                       status |-> StatusOfResponse(run.resp),
                      handler |-> route.handler,
                      params |-> ParamsFrom(route.paramNames, match, 1, NoParams),
                      chain |-> chain, log |-> run.log, resp |-> run.resp]
            ELSE regexHandleFrom(router, method, path, k + 1)

regexHandle(router, method, path) ==
    regexHandleFrom(router, method, UrlPathname(path), 1)

\* new Router(prefix); arg is the prefix argument of the group() call that
\* made the router (history).
NewRouter(pfx, arg) ==
    [prefix |-> pfx, routes |-> <<>>, globalMiddlewares |-> <<>>, arg |-> arg]

Top == Len(routers)

\* The prefix arguments of the group() calls whose callback is running.
EnclosingGroups == [k \in 1..(Top - 1) |-> routers[k + 1].arg]

RECURSIVE Concat(_)
Concat(ss) == IF ss = <<>> THEN <<>> ELSE Head(ss) \o Concat(Tail(ss))

RECURSIVE SumLen(_)
SumLen(ss) == IF ss = <<>> THEN 0 ELSE Len(Head(ss)) + SumLen(Tail(ss))

\* use(middleware), on the router that the running callback was given.
RegexUse(m) ==
    /\ SumLen([k \in 1..Top |-> routers[k].globalMiddlewares]) < MaxUse
    /\ routers' = [routers EXCEPT ![Top].globalMiddlewares = Append(@, m)]
    /\ last' = NoOutcome
    /\ UNCHANGED <<auxVars, mws, rq, radixVars, registered>>

\* get/post/... -> addRoute(method, path, middlewares, handler)
RegexAddRoute(method, path, middlewares) ==
    /\ Len(registered) < MaxRoutes
    /\ LET handler == HandlerNames[Len(registered) + 1]
           fullPath == routers[Top].prefix \o path
           compiled == CompilePattern(fullPath, 1, <<>>, <<>>)
       IN  /\ routers' = [routers EXCEPT ![Top].routes =
                            Append(@, [method |-> method,
                                       pattern |-> compiled.tokens,
                                       paramNames |-> compiled.paramNames,
                                       middlewares |-> middlewares,
                                       handler |-> handler])]
           /\ registered' = Append(registered,
                                   [method |-> method, path |-> path,
                                    handler |-> handler, middlewares |-> middlewares,
                                    groups |-> EnclosingGroups,
                                    globals |-> [k \in 1..Top |->
                                                   routers[k].globalMiddlewares]])
    /\ last' = NoOutcome
    /\ UNCHANGED <<auxVars, mws, rq, radixVars>>

\* group(prefix, callback): new Router(this.prefix + prefix), and the
\* callback starts to run with it.
GroupBegin(pfx) ==
    /\ Top <= MaxDepth
    /\ routers' = Append(routers, NewRouter(routers[Top].prefix \o pfx, pfx))
    /\ last' = NoOutcome
    /\ UNCHANGED <<auxVars, mws, rq, radixVars, registered>>

\* group(prefix, callback): the callback has returned;
\* this.routes.push(...subRouter.routes) and
\* this.globalMiddlewares.push(...subRouter.globalMiddlewares).
GroupEnd ==
    /\ Top > 1
    /\ routers' = [SubSeq(routers, 1, Top - 1) EXCEPT
                     ![Top - 1].routes = @ \o routers[Top].routes,
                     ![Top - 1].globalMiddlewares = @ \o routers[Top].globalMiddlewares]
    /\ last' = NoOutcome
    /\ UNCHANGED <<auxVars, mws, rq, radixVars, registered>>

\* handle(context), once every group() call has returned.
RegexHandle(method, path) ==
    /\ Top = 1
    /\ last' = [method |-> method, path |-> path,
                out |-> regexHandle(routers[1], method, path)]
    /\ UNCHANGED <<auxVars, mws, rq, radixVars, routers, registered>>

InitRegex ==
    /\ mws = <<>>
    /\ rq = <<>>
    /\ prefix = <<>>
    /\ radixRouter = EmptyRadix
    /\ globalMiddlewares = <<>>
    /\ routers = <<NewRouter(<<>>, <<>>)>>
    /\ registered = <<>>
    /\ last = NoOutcome
    /\ AuxIdle

NextRegex ==
    \/ RegexUse("G")
    \/ \E inp \in RegexRouteInputs : RegexAddRoute(inp[1], inp[2], inp[3])
    \/ \E req \in RegexRequestInputs : RegexHandle(req[1], req[2])

SpecRegex == InitRegex /\ [][NextRegex]_vars

NextGroup ==
    \/ RegexUse(GroupUseInput(Top))
    \/ \E inp \in GroupRouteInputs : RegexAddRoute(inp[1], inp[2], inp[3])
    \/ \E pfx \in GroupPrefixes(Top) : GroupBegin(pfx)
    \/ GroupEnd
    \/ \E req \in GroupRequestInputs : RegexHandle(req[1], req[2])

SpecGroup == InitRegex /\ [][NextGroup]_vars

----------------------------------------------------------------------------
(***************************************************************************)
(* Mounting a sub-router.  The Routers of src have no mount(); the tests   *)
(* (src/test/core/router.test.ts, "should mount sub-routers") and the      *)
(* README use one.  use, addRoute and handle are those of the Router of    *)
(* router.core.ts (46-49, 114-125, 188-202): addRoute hands the handler    *)
(* and the route's own middlewares to the path matcher, and handle puts    *)
(* the router's global middlewares of the moment of the request in front   *)
(* of them.  Only mount follows the specification, section 4.4: it         *)
(* registers every route that the other router holds again in the          *)
(* mounting router, under the prefix, with the concatenation of the two    *)
(* routers' global middlewares and the route's own.  A table keeps, with   *)
(* the matcher, the list of what was inserted, which is where mount finds  *)
(* the routes.  routers = <<mainRouter, userRouter>>, userRouter is        *)
(* mounted once, and mainRouter has no routes of its own.                  *)
(***************************************************************************)
MainRouter == 1
SubRouter == 2

P_i == <<"/", ":", "i">>
P_au == <<"/", "a", "/", "u">>

MountRouteInputs(t) ==
    IF t = SubRouter
    THEN ({"GET:"} \X {P_root, P_i} \X {<<>>}) \cup {<<"GET:", P_n, <<"B">>>>}
    ELSE {}
MountPrefixes == {P_uSlash, P_au}
\* The middleware handed to use() on each of the two routers.
MountUseInput(t) == IF t = SubRouter THEN "A" ELSE "G"
MountRequestInputs ==
    {"GET:"} \X {P_n, P_u, P_ua, P_au, P_aun}

NewTable == [routes |-> <<>>, globalMiddlewares |-> <<>>, matcher |-> EmptyRadix]

\* The path of a route under a prefix: no double slash, and no trailing
\* slash except for the root.
tablePathRaw(pfx, path) == pfx \o path
tablePath(pfx, path) == normalizePath(normalizePath(pfx) \o LeadingSlash(path))

\* this.radixRouter.insert(fullPath, { handler, middlewares })
tableInsert(table, method, path, handler, middlewares) ==
    [table EXCEPT
        !.routes = Append(@, [method |-> method, path |-> path,
                              handler |-> handler, middlewares |-> middlewares]),
        !.matcher = radixInsert(@, <<method>> \o path,
                                [handler |-> handler, middlewares |-> middlewares])]

\* addRoute(method, path, handler, middlewares) of a router without prefix.
tableAddRoute(table, method, path, handler, middlewares) ==
    tableInsert(table, method, Tail(FullPath(method, <<>>, path)), handler,
                middlewares)

\* mount: re-register the routes of other from position k on, each with
\* thisTable.globalMiddleware ++ otherTable.globalMiddleware ++
\* route.middlewares.
mountChain(globals, otherGlobals, middlewares) ==
    globals \o otherGlobals \o middlewares

RECURSIVE mountFrom(_, _, _, _)
mountFrom(table, other, pfx, k) ==
    IF k > Len(other.routes) THEN table
    ELSE LET route == other.routes[k]
         IN  mountFrom(tableInsert(table, route.method, tablePath(pfx, route.path),
                                   route.handler,
                                   mountChain(table.globalMiddlewares,
                                              other.globalMiddlewares,
                                              route.middlewares)),
                       other, pfx, k + 1)

\* mount(prefix, otherTable): the two tables after the call.
mountInPlace(table, other, pfx) ==
    [table |-> mountFrom(table, other, pfx, 1),
     other |-> [other EXCEPT !.routes =
                   [k \in 1..Len(other.routes) |->
                       [other.routes[k] EXCEPT !.path = tablePath(pfx, @)]]]]
mount(table, other, pfx) ==
    [table |-> mountFrom(table, other, pfx, 1), other |-> other]

RouteEvents == {k \in 1..Len(registered) : registered[k].kind = "route"}
MountEvents == {k \in 1..Len(registered) : registered[k].kind = "mount"}

\* use(middleware) on table t
TableUse(t, m) ==
    /\ Len(routers[t].globalMiddlewares) < MaxUse
    /\ routers' = [routers EXCEPT ![t].globalMiddlewares = Append(@, m)]
    /\ last' = NoOutcome
    /\ UNCHANGED <<auxVars, mws, rq, radixVars, registered>>

\* get/post/... on table t
TableAddRoute(t, method, path, middlewares) ==
    /\ Cardinality(RouteEvents) < MaxRoutes
    /\ LET handler == HandlerNames[Cardinality(RouteEvents) + 1]
       IN  /\ routers' = [routers EXCEPT
                            ![t] = tableAddRoute(@, method, path, handler, middlewares)]
           /\ registered' = Append(registered,
                                   [kind |-> "route", table |-> t, method |-> method,
                                    path |-> path, handler |-> handler,
                                    middlewares |-> middlewares,
                                    globals |-> routers[t].globalMiddlewares,
                                    subGlobals |-> <<>>])
    /\ last' = NoOutcome
    /\ UNCHANGED <<auxVars, mws, rq, radixVars>>

\* mainRouter.mount(pfx, userRouter)
Mount(pfx) ==
    /\ MountEvents = {}
    /\ LET r == mount(routers[MainRouter], routers[SubRouter], pfx)
       IN  routers' = <<r.table, r.other>>
    /\ registered' = Append(registered,
                            [kind |-> "mount", table |-> MainRouter, method |-> "",
                             path |-> pfx, handler |-> "", middlewares |-> <<>>,
                             globals |-> routers[MainRouter].globalMiddlewares,
                             subGlobals |-> routers[SubRouter].globalMiddlewares])
    /\ last' = NoOutcome
    /\ UNCHANGED <<auxVars, mws, rq, radixVars>>

\* mainRouter.handle(context)
MountHandle(method, path) ==
    /\ last' = [method |-> method, path |-> path,
                out |-> handle(routers[MainRouter].matcher,
                               routers[MainRouter].globalMiddlewares, method, path)]
    /\ UNCHANGED <<auxVars, mws, rq, radixVars, routers, registered>>

InitMount ==
    /\ mws = <<>>
    /\ rq = <<>>
    /\ prefix = <<>>
    /\ radixRouter = EmptyRadix
    /\ globalMiddlewares = <<>>
    /\ routers = <<NewTable, NewTable>>
    /\ registered = <<>>
    /\ last = NoOutcome
    /\ AuxIdle

NextMount ==
    \/ \E t \in {MainRouter, SubRouter} : TableUse(t, MountUseInput(t))
    \/ \E t \in {MainRouter, SubRouter} :
          \E inp \in MountRouteInputs(t) : TableAddRoute(t, inp[1], inp[2], inp[3])
    \/ \E pfx \in MountPrefixes : Mount(pfx)
    \/ \E req \in MountRequestInputs : MountHandle(req[1], req[2])

SpecMount == InitMount /\ [][NextMount]_vars

----------------------------------------------------------------------------
(***************************************************************************)
(* The Middleware Compiler of the specification, section 4.2, as the        *)
(* sources have it: addRoute (router.core.ts 123) stores the handler with  *)
(* the list of middlewares, and handle (197-198) calls                     *)
(* compose(middlewares)(context, () => route.handler(context)) for each    *)
(* request.  compose (210-219) has one case for every length of the list.  *)
(* The trace of an invocation has, with the events of the middlewares and  *)
(* the handler, the calls of the router's own functions that lead to them. *)
(***************************************************************************)
CompileHandlers == {"H1", "H2"}
CompileChains == SeqsUpTo({"A", "B", "S", "D"}, MaxChain)

\* A call of a function of the router itself.
Call(name, index) == <<name, index, "call">>
IsCall(e) == e[3] = "call"

\* dispatch(index): the trace and the response of the promise it returns.
\* "D" calls next() a second time when the first has returned and returns
\* the second response.
RECURSIVE composeTrace(_, _, _)
composeTrace(mwList, handler, index) ==
    IF AtEnd(index, mwList)
    THEN [trace |-> <<Call("dispatch", index), Call("next", -1),
                      Event(handler, -1, "run")>>,
          resp |-> ResponseOfHandler(handler)]
    ELSE LET middleware == MiddlewareAt(index, mwList)
             inner == composeTrace(mwList, handler, NextIndex(index))
             called == <<Call("arrow", index)>> \o inner.trace
         IN  IF ~CallsNext(middleware)
             THEN [trace |-> <<Call("dispatch", index),
                               Event(middleware, index, "before")>>,
                   resp |-> ResponseOfMiddleware(middleware)]
             ELSE [trace |-> <<Call("dispatch", index),
                               Event(middleware, index, "before")>>
                             \o called
                             \o (IF CallsNextTwice(middleware)
                                 THEN <<Event(middleware, index, "again")>>
                                        \o called
                                 ELSE <<>>)
                             \o <<Event(middleware, index, "after")>>,
                   resp |-> inner.resp]

\* compose(middlewares)(context, () => route.handler(context)) of a router
\* without global middlewares.
invokeRoute(route) ==
    LET run == composeTrace(route.middlewares, route.handler, 0)
        trace == <<Call("composed", -1)>> \o run.trace
    IN  [trace |-> trace,
         log |-> SelectSeq(trace, LAMBDA e : ~IsCall(e)),
         resp |-> run.resp]

\* Registration time: addRoute stores the handler and the middlewares.
StoreRoute(handler) ==
    /\ registered = <<>>
    /\ registered' = <<[handler |-> handler, middlewares |-> mws]>>
    /\ UNCHANGED <<auxVars, mws, rq, radixVars, routers, last>>

\* Request time: handle composes the stored list and calls the result.
InvokeRoute ==
    /\ registered # <<>>
    /\ last' = [handler |-> registered[1].handler,
                out |-> invokeRoute(registered[1])]
    /\ UNCHANGED <<auxVars, mws, rq, radixVars, routers, registered>>

InitCompile ==
    /\ mws \in CompileChains
    /\ rq = <<>>
    /\ prefix = <<>>
    /\ radixRouter = EmptyRadix
    /\ globalMiddlewares = <<>>
    /\ routers = <<>>
    /\ registered = <<>>
    /\ last = NoOutcome
    /\ AuxIdle

NextCompile ==
    \/ \E handler \in CompileHandlers : StoreRoute(handler)
    \/ InvokeRoute

SpecCompile == InitCompile /\ [][NextCompile]_vars

----------------------------------------------------------------------------
(***************************************************************************)
(* What "the request matches the route" means, written without the router: *)
(* the same method, as many segments as the pattern, and segment by        *)
(* segment either a parameter (":name") or the same literal.               *)
(***************************************************************************)
Segments(path) == SelectSeq(Split(path), LAMBDA s : s # <<>>)

IsParamSegment(seg) == Len(seg) > 1 /\ seg[1] = ":"

PatternMatches(pattern, path) ==
    LET ps == Segments(pattern)
        rs == Segments(path)
    IN  /\ Len(ps) = Len(rs)
        /\ \A i \in 1..Len(ps) : IsParamSegment(ps[i]) \/ ps[i] = rs[i]

\* The registration reg of a router with prefix pfx matches the request.
RegistrationMatches(pfx, reg, method, path) ==
    /\ reg.method = method
    /\ PatternMatches(pfx \o <<"/">> \o reg.path, path)

IsLiteral(path) == \A i \in 1..Len(path) : path[i] # ":"

\* P for a path given as P or as P/ (the empty string for the root).
Bare(path) == IF EndsWithSlash(path) THEN DropLast(path) ELSE path

Answered(out, handler) ==
    /\ out.kind = "response"
    /\ out.matched
    /\ out.handler = handler

\* C5: a trailing slash makes no difference to matching.  For every method
\* and every non-root request path P, the request for P/ has the outcome of
\* the request for P (same handler, same params, same response); the route
\* registered last as a literal P or P/ is reached by the requests for P and
\* for P/; and the root path stays /, it is not collapsed to the empty
\* string.
C5_TrailingSlash ==
    /\ (Served /\ last.path # P_root /\ ~EndsWithSlash(last.path)) =>
          handle(radixRouter, globalMiddlewares, last.method, last.path \o <<"/">>)
            = last.out
    /\ (Served /\ last.path # P_root /\ EndsWithSlash(last.path)) =>
          handle(radixRouter, globalMiddlewares, last.method, DropLast(last.path))
            = last.out
    /\ registered # <<>> =>
          LET reg == registered[Len(registered)]
              P == prefix \o Bare(reg.path)
          IN  IsLiteral(reg.path) =>
                 /\ Answered(handle(radixRouter, globalMiddlewares, reg.method,
                                    P \o <<"/">>), reg.handler)
                 /\ P # <<>> =>
                        Answered(handle(radixRouter, globalMiddlewares,
                                        reg.method, P), reg.handler)
    /\ normalizePath(P_root) = P_root

C5_Witness ==
    /\ registered # <<>>
    /\ registered[Len(registered)].path = P_uSlash
    /\ prefix = <<>>
    /\ Served
    /\ last.path = P_u
    /\ Answered(last.out, registered[Len(registered)].handler)

\* The registration that a handler name belongs to.
RegistrationOf(handler) ==
    CHOOSE k \in 1..Len(registered) : registered[k].handler = handler

\* C6: global middleware is a snapshot taken when the route is registered.
\* A request runs the global middlewares that were in the list when its
\* route was registered, then the route's own, and none that use() added
\* later.
C6_Snapshot ==
    (Served /\ last.out.kind = "response" /\ last.out.matched) =>
        LET reg == registered[RegistrationOf(last.out.handler)]
        IN  last.out.chain
              = SubSeq(globalMiddlewares, 1, reg.globalsBefore) \o reg.middlewares

\* C7: a request that matches no registered route gets the not-found
\* response (status 404) as a returned value, never a thrown error, and no
\* middleware and no handler runs for it.
C7_NotFound ==
    (/\ Served
     /\ \A k \in 1..Len(registered) :
            ~RegistrationMatches(prefix, registered[k], last.method, last.path))
    => /\ last.out.kind = "response"
       /\ last.out.status = 404
       /\ last.out.log = <<>>

\* The registrations that match the last request, for a router whose
\* routes are registered under the prefixes of their enclosing groups.
MatchingRegistrations ==
    {k \in 1..Len(registered) :
        RegistrationMatches(Concat(registered[k].groups), registered[k],
                            last.method, last.path)}

AnsweredByOneOf(out, ks) ==
    /\ out.kind = "response"
    /\ out.matched
    /\ \E k \in ks : registered[k].handler = out.handler

\* C3: when a literal route and a parameter route both match a request (GET
\* /users/new against /users/new and /users/:id), the request is dispatched
\* to the literal route's handler and no parameter is bound, whichever of the
\* two was registered first; a request that only the parameter route matches
\* is dispatched to the parameter route.
C3_StaticFirst ==
    Served =>
        LET lit == {k \in MatchingRegistrations : IsLiteral(registered[k].path)}
            par == {k \in MatchingRegistrations : ~IsLiteral(registered[k].path)}
        IN  /\ (lit # {} /\ par # {}) =>
                   /\ AnsweredByOneOf(last.out, lit)
                   /\ last.out.params = NoParams
            /\ (lit = {} /\ par # {}) => AnsweredByOneOf(last.out, par)

\* The parameters that the pattern binds in the request path: the name of
\* each parameter segment with the request segment at its position.
ExpectedParamNames(pattern) ==
    {Tail(Segments(pattern)[i]) :
        i \in {j \in 1..Len(Segments(pattern)) : IsParamSegment(Segments(pattern)[j])}}

\* C4: the params map handed to the handler has exactly the parameter names
\* of the dispatched route's pattern as keys, and each maps to the segment of
\* the request path at the position of its parameter.
C4_Params ==
    (Served /\ last.out.kind = "response" /\ last.out.matched) =>
        LET reg == registered[RegistrationOf(last.out.handler)]
            ps == Segments(reg.path)
            rs == Segments(last.path)
        IN  /\ DOMAIN last.out.params = ExpectedParamNames(reg.path)
            /\ \A i \in 1..Len(ps) :
                   IsParamSegment(ps[i]) => last.out.params[Tail(ps[i])] = rs[i]

C4_Witness ==
    /\ Served
    /\ last.path = P_uacb
    /\ last.out.kind = "response"
    /\ last.out.matched
    /\ registered[RegistrationOf(last.out.handler)].path = P_uicj
    /\ last.out.params = (<<"i">> :> <<"a">>) @@ (<<"j">> :> <<"b">>)

\* C10: every route added inside group(prefix, configure), nested groups
\* included, is reachable on the parent at the concatenation of the
\* enclosing group prefixes and the route path (trailing slash aside): a
\* request that matches such a route is answered by a route that matches it.
C10_GroupReach ==
    (/\ Served
     /\ \E k \in MatchingRegistrations : registered[k].groups # <<>>)
    => AnsweredByOneOf(last.out, MatchingRegistrations)

\* A route that the sub-router held when it was mounted, as the pair of the
\* positions of the mount() call and of the route's registration.
MountedRoutes ==
    {e \in MountEvents \X RouteEvents :
        e[2] < e[1] /\ registered[e[2]].table = SubRouter}

\* prefix + route path
MountedPattern(e) == registered[e[1]].path \o registered[e[2]].path

\* The mounted routes, and the mounting router's own routes, that match the
\* last request.
MountedMatches ==
    {e \in MountedRoutes :
        /\ registered[e[2]].method = last.method
        /\ PatternMatches(MountedPattern(e), last.path)}
OwnMatches ==
    {k \in RouteEvents :
        /\ registered[k].table = MainRouter
        /\ RegistrationMatches(<<>>, registered[k], last.method, last.path)}

BindsParams(params, pattern, path) ==
    /\ DOMAIN params = ExpectedParamNames(pattern)
    /\ \A i \in 1..Len(Segments(pattern)) :
           IsParamSegment(Segments(pattern)[i]) =>
               params[Tail(Segments(pattern)[i])] = Segments(path)[i]

NoDoubleSlash(path) ==
    \A i \in 1..(Len(path) - 1) : ~(path[i] = "/" /\ path[i + 1] = "/")

\* C8: after mount(prefix, sub), every route that sub held at the time of the
\* call is reachable on the mounting router at prefix + route path, with its
\* parameters bound, and nowhere else: a request that matches a mounted
\* route is answered by a route that matches it, a request answered by a
\* route of sub matches that route at prefix + route path, and the paths of
\* the mounting router's routes have no double slash and no trailing slash.
C8_MountReach ==
    /\ \A k \in 1..Len(routers[MainRouter].routes) :
           LET path == routers[MainRouter].routes[k].path
           IN  NoDoubleSlash(path) /\ (EndsWithSlash(path) => path = P_root)
    /\ Served =>
           /\ MountedMatches # {} =>
                  /\ last.out.kind = "response"
                  /\ last.out.matched
                  /\ \/ \E e \in MountedMatches :
                            registered[e[2]].handler = last.out.handler
                     \/ \E k \in OwnMatches :
                            registered[k].handler = last.out.handler
           /\ (/\ last.out.kind = "response"
               /\ last.out.matched
               /\ registered[RegistrationOf(last.out.handler)].table = SubRouter)
              => \E e \in MountedMatches :
                     /\ registered[e[2]].handler = last.out.handler
                     /\ BindsParams(last.out.params, MountedPattern(e), last.path)

C8_Witness ==
    /\ Served
    /\ last.path = P_ua
    /\ last.out.kind = "response"
    /\ last.out.matched
    /\ \E e \in MountedMatches :
           /\ registered[e[1]].path = P_uSlash
           /\ registered[e[2]].path = P_i
           /\ registered[e[2]].handler = last.out.handler
    /\ last.out.params = (<<"i">> :> <<"a">>)

\* The sub-router's routes and global middlewares registered after mount().
AfterMount(k) == \E m \in MountEvents : m < k

\* What the sub-router gave to a chain: the chain without the middleware of
\* the mounting router.
FromSub(chain) == SelectSeq(chain, LAMBDA m : m # MountUseInput(MainRouter))

ExpectedLogOf(mwList, handler) ==
    LET k == FirstStop(mwList)
        befores == [i \in 1..(k - 1) |-> Event(mwList[i], i - 1, "before")]
        afters == [i \in 1..(k - 1) |-> Event(mwList[k - i], k - i - 1, "after")]
        middle == IF k > Len(mwList)
                  THEN <<Event(handler, -1, "run")>>
                  ELSE <<Event(mwList[k], k - 1, "before")>>
    IN  befores \o middle \o afters

\* C11: a request that matches a route registered inside group(prefix,
\* configure) runs, each once and in this order, the parent's global
\* middlewares, the middlewares added on the routers of the enclosing
\* groups, the route's own middlewares, and then the handler.  The chain is
\* some number of middlewares of the parent (at least those it had when the
\* route was registered), then some number of middlewares of the groups (at
\* least those they had then), then the route's own.
C11_GroupChain ==
    (/\ Served
     /\ last.out.kind = "response"
     /\ last.out.matched
     /\ registered[RegistrationOf(last.out.handler)].groups # <<>>)
    => LET reg == registered[RegistrationOf(last.out.handler)]
           total == Len(routers[1].globalMiddlewares)
       IN  \E i \in Len(Head(reg.globals))..total :
           \E j \in Len(Concat(Tail(reg.globals)))..total :
               LET chain == [k \in 1..i |-> GroupUseInput(1)]
                              \o [k \in 1..j |-> GroupUseInput(2)]
                              \o reg.middlewares
               IN  /\ last.out.chain = chain
                   /\ last.out.log = ExpectedLogOf(chain, reg.handler)

\* C12: a request that matches a route of otherTable re-registered by
\* mount(prefix, otherTable) runs, in this order and each once, the mounting
\* router's global middlewares, otherTable's global middlewares, the
\* route's own middlewares, and then the handler.  The global middlewares of
\* a router are those it had at the time of mount or those it has now.
C12_MountChain ==
    \A k \in RouteEvents :
        (/\ Served
         /\ Answered(last.out, registered[k].handler)
         /\ registered[k].table = SubRouter)
        => \E m \in MountEvents :
           \E globals \in {registered[m].globals,
                            routers[MainRouter].globalMiddlewares} :
           \E subGlobals \in {registered[m].subGlobals,
                               routers[SubRouter].globalMiddlewares} :
               LET chain == globals \o subGlobals \o registered[k].middlewares
               IN  /\ last.out.chain = chain
                   /\ last.out.log = ExpectedLogOf(chain, registered[k].handler)

\* C13: a use(M) issued on the router of a group callback leaves the
\* parent's global middleware list unchanged: once the group calls have
\* returned the parent's list holds no middleware of a group, and a request
\* answered by a route registered directly on the parent, before or after
\* the group call, never runs one.
C13_GroupUseLocal ==
    /\ Top = 1 =>
           \A i \in 1..Len(routers[1].globalMiddlewares) :
               routers[1].globalMiddlewares[i] # GroupUseInput(2)
    /\ (/\ Served
        /\ last.out.kind = "response"
        /\ last.out.matched
        /\ registered[RegistrationOf(last.out.handler)].groups = <<>>)
       => \A e \in 1..Len(last.out.log) : last.out.log[e][1] # GroupUseInput(2)

\* The (method, normalized path) key of a registration.
RouteKey(reg) == <<reg.method>> \o Bare(LeadingSlash(reg.path))

\* C14: when the same (method, normalized path) key is registered twice,
\* the second registration is accepted like the first and a matching
\* request is dispatched to the handler and middlewares of the later
\* registration: the registration that answers a request is never followed
\* by a registration of the same key.
C14_LastWins ==
    Served =>
        \A k \in 1..Len(registered) :
            Answered(last.out, registered[k].handler) =>
                /\ \A j \in (k + 1)..Len(registered) :
                       RouteKey(registered[j]) # RouteKey(registered[k])
                /\ IsSuffix(registered[k].middlewares, last.out.chain)

\* C15: a matched route whose handler itself returns a response with
\* status 404 has that response delivered: the fallback layer around the
\* router (static files, index.html of a single-page application) acts on a
\* miss of the router only.
C15_MissOnly ==
    (/\ Served
     /\ last.clean
     /\ last.out.kind = "response"
     /\ last.out.matched
     /\ last.static = NoFile)
    => /\ last.final.kind = "response"
       /\ last.final.resp = last.out.resp
       /\ last.final.status = last.out.status

\* C17: the timeout middleware returns the downstream response when next()
\* resolves before the timer, and the timeout response (status 408 unless
\* statusCode is set) when the timer fires first; what it has returned is
\* not changed by anything that happens later, and it returns the timeout
\* response without waiting for the downstream handler.
C17_Timeout ==
    /\ [](\A r \in Requests :
             LET call == tm.calls[r]
             IN  call.pc = "returned" =>
                     /\ call.events # <<>>
                     /\ call.result = Head(call.events)[2]
                     /\ Head(call.events)[1] = "timer" =>
                            /\ call.result[1] = "response"
                            /\ call.result[3] =
                                   IF tm.options.statusCode = <<>>
                                   THEN 408 ELSE tm.options.statusCode[1])
    /\ [](\A r \in Requests :
             LET call == tm.calls[r]
             IN  (/\ call.pc = "awaiting"
                  /\ call.events # <<>>
                  /\ Head(call.events)[1] = "timer")
                 => ENABLED TimeoutReturns(r))
    /\ [][\A r \in Requests :
             tm.calls[r].pc = "returned" =>
                 /\ tm'.calls[r].pc = "returned"
                 /\ tm'.calls[r].result = tm.calls[r].result]_vars

C17_Witness ==
    \E r \in Requests :
        /\ tm.calls[r].pc = "returned"
        /\ tm.calls[r].result = <<"response", "Request Timeout", 408>>
        /\ tm.calls[r].next = "resolved"

\* The requests of the key from position i on that have been answered are
\* answered as the claim says, given the start of the key's current window
\* (-1: none yet) and the number of its requests in that window so far.
\* Requests of a skipped path are not counted.
RECURSIVE WindowsRespected(_, _, _, _)
WindowsRespected(key, i, start, count) ==
    IF i > Len(rl.hits) \/ rl.hits[i].pc # "done" THEN TRUE
    ELSE LET hit == rl.hits[i]
             fresh == start < 0 \/ hit.time > start + WindowMs
             n == IF fresh THEN 1 ELSE count + 1
         IN  IF hit.key # key \/ hit.skipped
             THEN WindowsRespected(key, i + 1, start, count)
             ELSE /\ hit.next = (n <= rl.options.max)
                  /\ ~hit.next => hit.status = 429
                  /\ WindowsRespected(key, i + 1,
                                      IF fresh THEN hit.time ELSE start, n)

\* C18: for each key and each window, rateLimit passes exactly the first max
\* requests to next() and answers every further request of that key in
\* that window with status 429 without calling next(); requests of another
\* key do not change the count of a key.  The store is written by the
\* middleware only.
C18_RateLimit ==
    rl.sets = 0 => \A key \in RateLimitKeys : WindowsRespected(key, 1, -1, 0)

\* A pattern is well formed when each of its parameter segments has a name.
WellFormed(path) ==
    \A i \in 1..Len(Segments(path)) :
        Head(Segments(path)[i]) = ":" => Len(Segments(path)[i]) > 1

\* C16: registering a malformed route pattern, such as /users/: with a
\* parameter segment that has no name, fails at registration time and leaves
\* the route table unchanged: the table never holds a route of a malformed
\* pattern.
C16_Malformed ==
    /\ \A k \in 1..Len(registered) : WellFormed(registered[k].path)
    /\ Len(routers[1].routes) <= Cardinality({k \in 1..Len(registered) :
                                                 WellFormed(registered[k].path)})

\* The path that a compiled pattern stands for, with "*" for a parameter.
PatternPath(tokens) ==
    [i \in 1..Len(tokens) |-> IF tokens[i][1] = "lit" THEN tokens[i][2] ELSE "*"]

NormalPath(path) ==
    /\ path # <<>>
    /\ Head(path) = "/"
    /\ NoDoubleSlash(path)
    /\ EndsWithSlash(path) => path = P_root

\* C19: after any sequence of addRoute and group calls, every indexed route
\* path begins with /, contains no //, and does not end with / unless it is
\* exactly the root /.
C19_NormalPaths ==
    \A r \in 1..Len(routers) :
        \A k \in 1..Len(routers[r].routes) :
            NormalPath(PatternPath(routers[r].routes[k].pattern))

\* C20: the position in the middleware chain is per invocation.  When two
\* requests for the same route (two or more middlewares) are in flight at
\* once and interleave at suspension points in any way, each request runs
\* every middleware of the route once, in registration order, and then the
\* handler: whatever the other request has done, the events of a request are
\* a prefix of the order of the route, its position is the number of
\* middlewares it has entered, and a finished request has run all of it.
C20_PerInvocation ==
    \A r \in Requests :
        Len(mws) >= 2 =>
            /\ IsPrefix(rq[r].log, ExpectedLog(mws))
            /\ rq[r].pc = "dispatch" =>
                   /\ rq[r].index = Len(rq[r].log)
                   /\ \A i \in 1..rq[r].index :
                          rq[r].log[i] = Event(mws[i], i - 1, "before")
            /\ rq[r].pc = "done" => rq[r].log = ExpectedLog(mws)

C20_Witness ==
    \E r, q \in Requests :
        /\ r # q
        /\ mws = <<"A", "B", "A">>
        /\ rq[r].pc = "done"
        /\ Len(rq[r].log) = 7
        /\ rq[q].pc = "dispatch"
        /\ rq[q].index = 1

\* The response that the chain of a route resolves to.
ExpectedResponse(mwList) ==
    IF FirstStop(mwList) > Len(mwList)
    THEN ResponseOfHandler(TheHandler)
    ELSE ResponseOfMiddleware(mwList[FirstStop(mwList)])

AfterEvents(log) == {e \in 1..Len(log) : log[e][3] = "after"}

\* C21: when the handler or an inner middleware suspends before it produces
\* its response, the code after next() of every enclosing middleware of the
\* same request runs only after the inner part has resolved, and it receives
\* that resolved response, whatever the other requests do meanwhile: while
\* the inner part is pending no code after next() has run, and every
\* response a middleware received from next() is the resolved response of
\* the chain.
C21_AwaitsInner ==
    \A r \in Requests :
        /\ rq[r].pc \in {"dispatch", "await"} =>
               /\ AfterEvents(rq[r].log) = {}
               /\ rq[r].seen = <<>>
        /\ Len(rq[r].seen) = Cardinality(AfterEvents(rq[r].log))
        /\ \A i \in 1..Len(rq[r].seen) : rq[r].seen[i] = ExpectedResponse(mws)

C21_Witness ==
    \E r, q \in Requests :
        /\ r # q
        /\ mws = <<"A", "B">>
        /\ rq[q].pc = "await"
        /\ rq[r].pc = "done"
        /\ rq[r].seen = <<ResponseOfHandler(TheHandler), ResponseOfHandler(TheHandler)>>

\* C22: dispatch is read-only on the router.  A call of handle(), whether
\* it hits, misses or fails, leaves the registered routes, the path index
\* and the global middleware list exactly as they were.
C22_ReadOnly ==
    [][(last' # last /\ last' # NoOutcome) =>
           UNCHANGED <<prefix, radixRouter, globalMiddlewares, registered>>]_vars

C22_Witness ==
    /\ Served
    /\ last.out.kind = "response"
    /\ last.out.matched
    /\ last.out.params # NoParams
    /\ Len(registered) = MaxRoutes
    /\ globalMiddlewares # <<>>

\* What the chain does when something in it throws, written without the
\* machine: the events in order, whether a response comes back, and the
\* response or the error.
RECURSIVE Propagated(_, _, _)
Propagated(mwList, index, handlerThrows) ==
    IF index >= Len(mwList)
    THEN IF handlerThrows
         THEN [log |-> <<Event(TheHandler, -1, "throw")>>, ok |-> FALSE,
               resp |-> ErrorOf(TheHandler)]
         ELSE [log |-> <<Event(TheHandler, -1, "run")>>, ok |-> TRUE,
               resp |-> ResponseOfHandler(TheHandler)]
    ELSE LET m == mwList[index + 1]
             inner == Propagated(mwList, index + 1, handlerThrows)
         IN  IF Throws(m)
             THEN [log |-> <<Event(m, index, "throw")>>, ok |-> FALSE,
                   resp |-> ErrorOf(m)]
             ELSE IF inner.ok
             THEN [log |-> <<Event(m, index, "before")>> \o inner.log
                            \o <<Event(m, index, "after")>>,
                   ok |-> TRUE, resp |-> inner.resp]
             ELSE IF Catches(m)
             THEN [log |-> <<Event(m, index, "before")>> \o inner.log
                            \o <<Event(m, index, "catch")>>,
                   ok |-> TRUE, resp |-> ResponseOfMiddleware(m)]
             ELSE [log |-> <<Event(m, index, "before")>> \o inner.log,
                   ok |-> FALSE, resp |-> inner.resp]

\* C23: an error raised inside a handler or middleware is not caught by the
\* router core.  It propagates through next() of each enclosing middleware,
\* which may catch it, and otherwise out of handle() as a rejection carrying
\* that error; handle() never turns it into a response; and a later request,
\* or another request in flight, is dispatched as if nothing had failed.
C23_ErrorsPropagate ==
    \A r \in Requests :
        \E handlerThrows \in BOOLEAN :
            LET expected == Propagated(mws, 0, handlerThrows)
            IN  /\ IsPrefix(rq[r].log, expected.log)
                /\ rq[r].pc = "done" =>
                       /\ expected.ok
                       /\ rq[r].log = expected.log
                       /\ rq[r].resp = expected.resp
                /\ rq[r].pc = "rejected" =>
                       /\ ~expected.ok
                       /\ rq[r].log = expected.log
                       /\ rq[r].resp = <<"rejected", expected.resp>>

C23_Witness ==
    \E r, q \in Requests :
        /\ r # q
        /\ mws = <<"A", "A">>
        /\ rq[q].pc = "rejected"
        /\ rq[q].resp = <<"rejected", <<"error", "H">>>>
        /\ rq[r].failed
        /\ rq[r].pc = "done"
        /\ rq[r].resp = ResponseOfHandler(TheHandler)

C23_WitnessCaught ==
    \E r \in Requests :
        /\ mws = <<"A", "C", "X">>
        /\ rq[r].pc = "done"
        /\ rq[r].resp = ResponseOfMiddleware("C")

\* The reference chain: middleware i receives a next() that runs middleware
\* i + 1, and the next() of the last middleware runs the handler.
RECURSIVE ReferenceChain(_, _, _)
ReferenceChain(mwList, handler, i) ==
    IF i > Len(mwList)
    THEN [log |-> <<Event(handler, -1, "run")>>, resp |-> ResponseOfHandler(handler)]
    ELSE LET m == mwList[i]
             rest == ReferenceChain(mwList, handler, i + 1)
         IN  IF ~CallsNext(m)
             THEN [log |-> <<Event(m, i - 1, "before")>>,
                   resp |-> ResponseOfMiddleware(m)]
             ELSE [log |-> <<Event(m, i - 1, "before")>> \o rest.log
                             \o (IF CallsNextTwice(m)
                                 THEN <<Event(m, i - 1, "again")>> \o rest.log
                                 ELSE <<>>)
                             \o <<Event(m, i - 1, "after")>>,
                   resp |-> rest.resp]

\* C24: the three compilation cases agree with one reference chain.  For
\* every middleware list of length 0, 1 or more and every handler, invoking
\* the compiled handler produces the same sequence of middleware and handler
\* executions and the same result as the chain in which middleware i
\* receives a next() that runs middleware i+1 and the last one's next() runs
\* the handler; with zero middleware the compiled handler is the handler
\* itself, with no wrapper step: the call of the handler is all there is.
C24_CompileAgrees ==
    last # NoOutcome =>
        LET reference == ReferenceChain(mws, last.handler, 1)
        IN  /\ last.out.log = reference.log
            /\ last.out.resp = reference.resp
            /\ Len(mws) = 0 => last.out.trace = <<Event(last.handler, -1, "run")>>

\* The executions and the result are those of the reference chain for every
\* list, also of one that calls next() twice.
SameExecutions ==
    last # NoOutcome =>
        LET reference == ReferenceChain(mws, last.handler, 1)
        IN  /\ last.out.log = reference.log
            /\ last.out.resp = reference.resp

\* C25: a parameter segment :name binds exactly one non-empty /-delimited
\* segment: a bound parameter value is never empty and never contains /.
C25_OneSegment ==
    (Served /\ last.out.kind = "response" /\ last.out.matched) =>
        \A name \in DOMAIN last.out.params :
            /\ last.out.params[name] # <<>>
            /\ \A k \in 1..Len(last.out.params[name]) :
                   last.out.params[name][k] # "/"

\* C26: fallback behaviour (static-file lookup, SPA index) comes after the
\* router and only when the router has missed: a request that matches a
\* registered route is answered by that route's handler.
C26_RouterFirst ==
    (/\ Served
     /\ last.clean
     /\ UrlPathname(last.path) \notin app.ws
     /\ handle(radixRouter, globalMiddlewares, last.method, last.path).kind
            = "response"
     /\ handle(radixRouter, globalMiddlewares, last.method, last.path).matched)
    => /\ last.final.kind = "response"
       /\ last.final.resp
              = handle(radixRouter, globalMiddlewares, last.method, last.path).resp

\* C27: the number of tasks that are in the pool at the same time never
\* exceeds maxSize, for every interleaving of execute() calls, task
\* completions and wait time-outs.
C27_PoolBound == Cardinality(pl.pool) <= pl.maxSize

\* C28: every handleRequest call eventually returns a response, provided
\* every handler eventually returns: the two nested addToRequestPool calls
\* of one request never leave the requests waiting for each other, also
\* when as many requests as the pool size arrive at once.  Once a handler
\* has thrown, the premise fails and requests may end rejected.
C28_Returns ==
    \A r \in Arrivals :
        (pl.reqs[r].pc # "idle")
            ~> (pl.reqs[r].pc = "done" \/ \E q \in Arrivals : pl.reqs[q].failed)

C28_Witness ==
    /\ pl.maxSize = 2
    /\ pl.reqs[1].pc = "done"
    /\ pl.reqs[2].pc = "handling"
    /\ pl.reqs[3].pc = "waiting"

\* The run of a chain whose middlewares may call next() twice, written
\* without the machine: every call of next() by the middleware at index
\* runs the chain from index + 1 to the handler.
RECURSIVE RunsOf(_, _)
RunsOf(mwList, index) ==
    IF index >= Len(mwList)
    THEN <<Event(TheHandler, -1, "run")>>
    ELSE LET m == mwList[index + 1]
             inner == RunsOf(mwList, index + 1)
         IN  IF CallsNextTwice(m)
             THEN <<Event(m, index, "before")>> \o inner
                    \o <<Event(m, index, "again")>> \o inner
                    \o <<Event(m, index, "after")>>
             ELSE <<Event(m, index, "before")>> \o inner
                    \o <<Event(m, index, "after")>>

\* C29: when a middleware calls next() more than once during one request,
\* each call runs the rest of the chain from the middleware that follows it,
\* the handler once per call, and returns that run's response; a repeated
\* call never skips a middleware, never runs past the end of the chain, and
\* does not affect the chain position of any other request.
C29_NextAgain ==
    \A r \in Requests :
        /\ IsPrefix(rq[r].log, RunsOf(mws, 0))
        /\ rq[r].index <= Len(mws)
        /\ rq[r].pc = "done" =>
               /\ rq[r].log = RunsOf(mws, 0)
               /\ rq[r].resp = ResponseOfHandler(TheHandler)

C29_Witness ==
    \E r, q \in Requests :
        /\ r # q
        /\ mws = <<"D", "A">>
        /\ rq[r].pc = "done"
        /\ Len(rq[r].log) = 9
        /\ rq[q].pc = "dispatch"
        /\ rq[q].again = {0}

\* The calls of increment() that have returned.
DoneIncrements == {c \in RedisCallers : rl.calls[c].pc = "done"}

\* C30: RedisStore.increment loses no count under concurrency.  When the
\* calls for a key overlap within one window, each call gets a distinct
\* total, the stored total afterwards equals the number of calls, and
\* rateLimit lets no more than max of them through.
C30_NoLostCount ==
    (/\ \A c \in RedisCallers : rl.calls[c].at = 0
     /\ rl.now < RedisWindowMs
     /\ rl.setter = "idle") =>
        /\ \A c, d \in DoneIncrements :
               c # d => rl.calls[c].result.total # rl.calls[d].result.total
        /\ (\A c \in RedisCallers : rl.calls[c].pc \in {"idle", "done"}) =>
               stored(rl.hash, rl.now).total = Cardinality(DoneIncrements)
        /\ Cardinality({c \in DoneIncrements :
                            ~(rl.calls[c].result.total > rl.max)}) <= rl.max

=============================================================================
